---- MODULE Spec2Model ----
(***************************************************************************)
(* Model of the task bot's concurrency-and-timing core:                    *)
(*   - the task lifecycle handlers (app/handlers/core.py, statuses.py,      *)
(*     photos.py),                                                          *)
(*   - the deadline notification scheduler (app/services/notifications.py), *)
(*   - the debounced photo menus (app/handlers/photos.py).                  *)
(*                                                                         *)
(* Scheduling model: one asyncio event loop.  A handler runs without       *)
(* interruption between two real suspension points (network awaits,        *)
(* asyncio.sleep); the sqlite3 calls and the MemoryStorage FSM calls do not *)
(* suspend.  Each action below is one such uninterrupted section.          *)
(***************************************************************************)
EXTENDS Integers, Sequences, FiniteSets, TLC

None == "none"

\* ------------------------------------------------------------------ bounds
NumTasks == 1

\* the clock stops at MaxNow hours; tasks are due at DueDate hours
MaxNow == 12
DueDate == 10
\* a scan is followed for MaxScanMinutes minutes of waiting for the network; the clock of the classification
\* is drawn up to MaxOverdueHours hours after the due date
MaxScanMinutes == 2
MaxOverdueHours == 25
\* the local hour of the day at which the clock reads 0
StartHour == 6
\* the history counters saturate at MaxDeliveries
MaxDeliveries == 2
\* the upload clock stops at MaxTime seconds; at most MaxPhotos photos arrive; a handler's
\* acknowledgement takes at most MaxAckDelay seconds; time.time() has MaxSub + 1 readings
\* within a second
MaxTime == 8
MaxPhotos == 3
MaxAckDelay == 1
MaxSub == 1
\* at most MaxComments comments are added to the tasks
MaxComments == 1
\* asyncio.sleep(600) and asyncio.sleep(60) of notification_scheduler, in seconds
ScanInterval == 600
ErrorInterval == 60
\* delay=2.0 of show_completion_menu_after_delay, delay=3.0 of show_task_photo_menu_after_delay
CompletionDelay == 2
TaskPhotoDelay == 3

\* ------------------------------------------------------------------ domain
\* the scheduler loops: loop 1 alone in SpecSched, both in SpecOverlap
Scanners == {1, 2}
Tasks == 1..NumTasks
Admins == {"a1", "a2"}
Employees == {"e1", "e2"}
Users == Admins \cup Employees
\* the users who act in the lifecycle specification; e2 is there a possible new assignee
LifeActors == {"a1", "e1"}
\* the admin who acts in the specification of the audit trail
Auditors == {"a1"}
\* the users who go through the completion dialogue there
Reporters == {"e1"}

Statuses == {"pending", "in_progress", "partially_completed", "completed", "rejected"}
CompletedStatuses == {"completed", "partially_completed"}

role(u) == IF u \in Admins THEN "admin" ELSE "employee"

\* FSM states of app/states.py that the modelled flows use
FsmStates == {None, "CompleteTask_waiting_for_comment", "CompleteTask_asking_for_photo",
              "CompleteTask_waiting_for_photo", "ReopenTask_waiting_for_comment",
              "ChangeAssignee_waiting_for_selection", "CreateTask_waiting_for_task_photo",
              "Comment_waiting_for_comment_text",
              "NotificationSettings_waiting_for_quiet_hours_start",
              "NotificationSettings_waiting_for_quiet_hours_end"}

\* an inline button is its callback data: <<kind, task id, argument>>
Btn(k, t, a) == <<k, t, a>>

VARIABLES
    tasks,        \* tasks table: status, assigned_to_id, completion_comment, photo_file_id
    fsm,          \* MemoryStorage: per user the FSM state and the data keys task_id, new_status, comment
    buttons,      \* per user the callback buttons rendered so far (old messages stay clickable)
    take,         \* per user the position of an in-flight callback_take_task
    takeLog,      \* history: the answers callback_take_task has given, <<user, task, answer>>
    lastWrite,    \* history: the most recent write to a task's status
    now,          \* get_now(), in minutes
    due,          \* tasks.due_date, in minutes
    task_notifications,   \* task_notifications table: rows (task_id, notification_type)
    sched,        \* per scheduler loop the position of check_and_send_notifications
    delivered,    \* history: per (task, kind) the messages the Gateway delivered to the assignee
    adminAlerts,  \* history: per (task, admin) the overdue messages delivered to the admin
    time,         \* the loop's clock, in seconds
    sub,          \* the reading of time.time() within the current second
    uploads,      \* per received photo its flow, arrival time and the position of its handler
    timers,       \* per received photo the delayed menu task its handler created
    pending,      \* _pending_photo_menus: per key the entry (task, timestamp)
    task_photos,  \* task_photos table: rows <<task_id, photo_file_id>>
    task_history, \* task_history table: rows (task_id, user_id, change_type), oldest first
    task_comments,    \* task_comments table: rows (task_id, user_id), oldest first
    settings,     \* user_notification_settings table: per user the switches and the quiet hours
    notice        \* per user the notification a handler of theirs is sending after its commit

lifeVars == <<tasks, fsm, buttons, take, takeLog, lastWrite>>
schedVars == <<now, due, task_notifications, sched, delivered, adminAlerts>>
aggVars == <<time, sub, uploads, timers, pending, task_photos>>
auditVars == <<task_history, task_comments>>
noticeVars == <<notice>>
vars == <<lifeVars, schedVars, aggVars, auditVars, settings, noticeVars>>

\* task_id 0 stands for an absent task_id key, photo_file_id 0 for NULL
\* quiet_hours_start <<>> stands for an absent key
\* request is history: the task and the status of the user's latest completion request that
\* passed the permission test of callback_update_status, forgotten when the state is cleared
EmptyData == [state |-> None, task_id |-> 0, new_status |-> None, comment |-> None,
              completion_photos |-> <<>>, quiet_hours_start |-> <<>>,
              request |-> <<0, None>>]
NoWrite == [op |-> None, t |-> 0, authorized |-> TRUE, old |-> None]
\* what a status write records: the handler, the task, whether the requestor was an admin
\* or the task's assignee when the row was written, and the status it replaced
Write(op, u, t) == [op |-> op, t |-> t,
                    authorized |-> (role(u) = "admin" \/ tasks[t].assigned_to_id = u),
                    old |-> tasks[t].status]
IdleTake == [pc |-> "idle", t |-> 0, res |-> None]

\* the two photo flows of the uploading user; a flow names its key in _pending_photo_menus
\* ("completion_<user>", "<user>_<task>")
Flows == {"completion", "creation"}
\* the user of each flow: an employee completes a task, an admin creates one
FlowUser(f) == IF f = "creation" THEN "a1" ELSE "e1"
\* task_id 0 stands for an absent key
NoEntry == [task |-> 0, timestamp |-> <<0, 0>>]
\* a delayed menu task: st is none (not created), new (created, not started), sleeping,
\* done, cancelled or dead (lost in a restart).  The other fields record what it did when
\* it woke or was cancelled: held, the entry of its key was its own; sup, the entry was a
\* newer task's; prompted, it showed the menu, reporting count photos; cleared, it removed
\* its entry; clobbered, it removed the entry of another task
NoTimer == [st |-> "none", due |-> 0, own |-> <<0, 0>>, cancelReq |-> FALSE,
            held |-> FALSE, sup |-> FALSE, prompted |-> FALSE, cleared |-> FALSE, clobbered |-> FALSE,
            count |-> 0, stored |-> 0, at |-> 0]
\* the id cur.lastrowid gives the task created in the creation flow
NewTask == NumTasks + 1

\* the five switches of a row of user_notification_settings
SettingKinds == {"24h", "3h", "1h", "overdue", "comment"}
\* a time text "HH:MM" is the pair <<HH, MM>>; rows is the number of rows the table holds
\* for the user
DefaultSettings == [enable |-> [k \in SettingKinds |-> TRUE],
                    quiet_hours_start |-> <<22, 0>>, quiet_hours_end |-> <<8, 0>>,
                    rows |-> 1]
\* the user has no row yet: no column has a value
NoSettings == [enable |-> [k \in SettingKinds |-> FALSE],
               quiet_hours_start |-> <<0, 0>>, quiet_hours_end |-> <<0, 0>>,
               rows |-> 0]

\* the time texts a user types for the quiet hours (the last one is no time of day), and
\* the ones typed while the scheduler is followed
TimeTexts == {<<0, 0>>, <<2, 0>>, <<8, 0>>, <<9, 0>>, <<22, 0>>, <<23, 30>>, <<25, 0>>}
FewTimeTexts == {<<8, 0>>, <<22, 0>>, <<25, 0>>}
\* datetime.strptime(text, '%H:%M') does not raise ValueError
ValidTime(text) == text[1] \in 0..23 /\ text[2] \in 0..59

\* the notification kinds in the order check_and_send_notifications handles them
KindOrder == <<"24h", "3h", "1h", "overdue">>
Kinds == {"24h", "3h", "1h", "overdue"}
\* the kinds whose send function consults task_notifications; the mutant has send_1h_reminder
\* consult it too
DedupKindsAll == {"24h", "3h", "1h", "overdue"}
DedupKinds == {"24h", "3h", "overdue"}
\* a scan in progress: its position, and what it has done so far: sent, the <<task, kind>>
\* delivered to the assignee, failed, the <<task, kind>> whose send to the assignee raised,
\* and waited, the minutes it has spent waiting for the network
IdleScan == [pc |-> "sleeping", kind |-> 0, queue |-> <<>>, admins |-> {}, res |-> None,
             sent |-> {}, failed |-> {}, waited |-> 0]

\* the scheduler loops before their first scan, the clock reading n minutes
SchedStart(n) ==
    /\ now = n
    /\ due = [t \in Tasks |-> DueDate * 60]
    /\ task_notifications = {}
    /\ sched = [s \in Scanners |-> IdleScan]
    /\ delivered = [t \in Tasks |-> [k \in Kinds |-> 0]]
    /\ adminAlerts = [t \in Tasks |-> [a \in Admins |-> 0]]

SchedInit == SchedStart(0)

\* no photo received yet, no menu pending
AggInit ==
    /\ time = 0
    /\ sub = 0
    /\ uploads = <<>>
    /\ timers = <<>>
    /\ pending = [f \in Flows |-> NoEntry]
    /\ task_photos = {}

\* no history row and no comment yet
AuditInit ==
    /\ task_history = <<>>
    /\ task_comments = <<>>

\* no handler is sending a notification; before is the task's row before the commit,
\* stmts the number of statements a failed transaction had executed, said the text of the
\* message the handler was called with, text the parts of the notification's text
NoNotice == [pc |-> "idle", op |-> None, t |-> 0, to |-> {}, res |-> None, stmts |-> 0,
             said |-> None, text |-> <<>>,
             before |-> [status |-> None, assigned_to_id |-> None,
                         completion_comment |-> None, photo_file_id |-> 0]]
NoticeInit == notice = [u \in Users |-> NoNotice]

\* every user has the settings create_default_settings gives
SettingsInit == settings = [u \in Users |-> DefaultSettings]

Init ==
    /\ SchedInit
    /\ AggInit
    /\ AuditInit
    /\ NoticeInit
    /\ SettingsInit
    /\ tasks = [t \in Tasks |-> [status |-> "pending", assigned_to_id |-> None,
                                 completion_comment |-> None, photo_file_id |-> 0]]
    /\ fsm = [u \in Users |-> EmptyData]
    /\ buttons = [u \in Users |-> {}]
    /\ take = [u \in Users |-> IdleTake]
    /\ takeLog = {}
    /\ lastWrite = NoWrite

\* ------------------------------------------------------------ keyboards
get_task_keyboard(t, current_status, assigned_to_id, is_admin) ==
    IF assigned_to_id = None /\ ~is_admin
    THEN {Btn("take", t, None)}
    ELSE IF current_status \in CompletedStatuses
    THEN (IF is_admin THEN {Btn("reopen", t, None), Btn("change_assignee", t, None)} ELSE {})
    ELSE {Btn("status", t, s) : s \in Statuses \ {current_status}}
         \cup (IF is_admin /\ assigned_to_id # None
               THEN {Btn("change_assignee", t, None)} ELSE {})

Render(u, bs) == buttons' = [buttons EXCEPT ![u] = @ \cup bs]

\* state.clear()
Clear(u) == [fsm EXCEPT ![u] = EmptyData]

\* ------------------------------------------------------------ handlers
\* core.py callback_task_details: any authorised user opens any task
callback_task_details(u, t) ==
    /\ Render(u, get_task_keyboard(t, tasks[t].status, tasks[t].assigned_to_id,
                                   role(u) = "admin"))
    /\ UNCHANGED <<tasks, fsm, take, takeLog, lastWrite>>

\* core.py callback_take_task, the conflict test of line 798
AlreadyAssignedNever(t) == FALSE
AlreadyAssigned(t) == tasks[t].assigned_to_id # None

\* the update "take_<t>" is dispatched: the handler is scheduled on the loop
take_dispatch(u, t) ==
    /\ Btn("take", t, None) \in buttons[u]
    /\ take[u].pc = "idle"
    /\ take' = [take EXCEPT ![u] = [pc |-> "scheduled", t |-> t, res |-> None]]
    /\ UNCHANGED <<tasks, fsm, buttons, takeLog, lastWrite>>

\* lines 761-807: role test, SELECT, conflict test, UPDATE, commit (no await between)
take_run(u) ==
    /\ take[u].pc = "scheduled"
    /\ LET t == take[u].t IN
       IF role(u) = "admin"
       THEN /\ take' = [take EXCEPT ![u].pc = "answering", ![u].res = "admin_denied"]
            /\ UNCHANGED <<tasks, lastWrite>>
       ELSE IF AlreadyAssigned(t)
       THEN /\ take' = [take EXCEPT ![u].pc = "answering", ![u].res = "already_assigned"]
            /\ UNCHANGED <<tasks, lastWrite>>
       ELSE /\ tasks' = [tasks EXCEPT ![t].assigned_to_id = u, ![t].status = "in_progress"]
            /\ lastWrite' = Write("take", u, t)
            /\ take' = [take EXCEPT ![u].pc = "answering", ![u].res = "taken"]
    /\ UNCHANGED <<fsm, buttons, takeLog>>

\* lines 811-887: the callback answer reaches the user
take_answer(u) ==
    /\ take[u].pc = "answering"
    /\ takeLog' = takeLog \cup {<<u, take[u].t, take[u].res>>}
    /\ take' = [take EXCEPT ![u] = IdleTake]
    /\ UNCHANGED <<tasks, fsm, buttons, lastWrite>>

\* callback_take_task as one step: its database section is uninterrupted, and the lifecycle
\* specification does not follow the answer
callback_take_task(u, t) ==
    /\ Btn("take", t, None) \in buttons[u]
    /\ IF role(u) = "admin" \/ AlreadyAssigned(t)
       THEN UNCHANGED <<tasks, lastWrite>>
       ELSE /\ tasks' = [tasks EXCEPT ![t].assigned_to_id = u, ![t].status = "in_progress"]
            /\ lastWrite' = Write("take", u, t)
    /\ UNCHANGED <<fsm, buttons, take, takeLog>>

\* statuses.py callback_update_status, the permission test of line 61
MayUpdate(u, t) == ~(tasks[t].assigned_to_id # u /\ role(u) # "admin")

callback_update_status(u, t, new_status) ==
    /\ Btn("status", t, new_status) \in buttons[u]
    /\ IF ~MayUpdate(u, t)
       THEN UNCHANGED <<tasks, fsm, buttons, lastWrite>>
       ELSE IF new_status \in CompletedStatuses
       THEN \* lines 66-106: ask for the completion comment
            /\ fsm' = [fsm EXCEPT ![u].task_id = t, ![u].new_status = new_status,
                                  ![u].state = "CompleteTask_waiting_for_comment",
                                  ![u].request = <<t, new_status>>]
            /\ UNCHANGED <<tasks, buttons, lastWrite>>
       ELSE \* lines 108-121 and the re-rendered keyboard of line 257
            /\ tasks' = [tasks EXCEPT
                  ![t].status = new_status,
                  ![t].assigned_to_id =
                      IF new_status = "in_progress" /\ tasks[t].assigned_to_id = None
                      THEN u ELSE @]
            /\ lastWrite' = Write("update_status", u, t)
            /\ Render(u, get_task_keyboard(t, tasks'[t].status, tasks'[t].assigned_to_id,
                                           role(u) = "admin"))
            /\ UNCHANGED fsm
    /\ UNCHANGED <<take, takeLog>>

\* statuses.py process_completion_comment: message.text is a non-empty text
process_completion_comment(u) ==
    /\ fsm[u].state = "CompleteTask_waiting_for_comment"
    /\ fsm' = [fsm EXCEPT ![u].comment = "text", ![u].state = "CompleteTask_asking_for_photo"]
    /\ Render(u, {Btn("photo_no", 0, None)})
    /\ UNCHANGED <<tasks, take, takeLog, lastWrite>>

\* old_task.cancel() unless old_task.done()
CancelTask(ts, i) ==
    IF i # 0 /\ ts[i].st \in {"new", "sleeping"} THEN [ts EXCEPT ![i].cancelReq = TRUE] ELSE ts

\* photos.py callback_photo_no: no state filter, no permission test.  Lines 94-99 cancel
\* and drop the pending menu of the user's completion key, lines 113-141 write the status,
\* the comment and the photos collected in the FSM data, line 252 clears the state
callback_photo_no(u) ==
    /\ Btn("photo_no", 0, None) \in buttons[u]
    /\ IF u = FlowUser("completion")
       THEN /\ timers' = CancelTask(timers, pending["completion"].task)
            /\ pending' = [pending EXCEPT !["completion"] = NoEntry]
       ELSE UNCHANGED <<timers, pending>>
    /\ LET t == fsm[u].task_id
           new_status == fsm[u].new_status
           comment == fsm[u].comment
           completion_photos == fsm[u].completion_photos
           first_photo == IF completion_photos # <<>> THEN completion_photos[1] ELSE 0
       IN IF t = 0
          THEN \* UPDATE ... WHERE id = NULL changes no row
               /\ fsm' = Clear(u)
               /\ UNCHANGED <<tasks, lastWrite, task_photos>>
          ELSE IF new_status = None
          THEN \* status is NOT NULL: IntegrityError, rolled back, state kept
               UNCHANGED <<tasks, fsm, lastWrite, task_photos>>
          ELSE /\ tasks' = [tasks EXCEPT ![t].status = new_status,
                                         ![t].completion_comment = comment,
                                         ![t].photo_file_id = first_photo]
               /\ task_photos' = task_photos \cup
                      {<<t, completion_photos[i]>> : i \in 1..Len(completion_photos)}
               /\ lastWrite' = Write("photo_no", u, t)
               /\ fsm' = Clear(u)
    /\ UNCHANGED <<buttons, take, takeLog, time, sub, uploads>>

\* statuses.py callback_reopen_task
callback_reopen_task(u, t) ==
    /\ Btn("reopen", t, None) \in buttons[u]
    /\ IF role(u) # "admin" \/ tasks[t].status \notin CompletedStatuses
       THEN UNCHANGED fsm
       ELSE fsm' = [fsm EXCEPT ![u].task_id = t,
                               ![u].state = "ReopenTask_waiting_for_comment"]
    /\ UNCHANGED <<tasks, buttons, take, takeLog, lastWrite>>

\* statuses.py process_reopen_comment: the UPDATE of lines 416-425 has no status condition
process_reopen_comment(u) ==
    /\ fsm[u].state = "ReopenTask_waiting_for_comment"
    /\ LET t == fsm[u].task_id IN
       IF role(u) # "admin" \/ t = 0
       THEN UNCHANGED <<tasks, lastWrite>>
       ELSE /\ tasks' = [tasks EXCEPT ![t].status = "in_progress",
                                      ![t].completion_comment = None,
                                      ![t].photo_file_id = 0]
            /\ lastWrite' = Write("reopen", u, t)
    /\ fsm' = Clear(u)
    /\ UNCHANGED <<buttons, take, takeLog>>

\* statuses.py callback_change_assignee (admins only): lists the users and "none"
callback_change_assignee(u, t) ==
    /\ Btn("change_assignee", t, None) \in buttons[u]
    /\ IF role(u) # "admin"
       THEN UNCHANGED <<fsm, buttons>>
       ELSE /\ fsm' = [fsm EXCEPT ![u].task_id = t,
                                  ![u].state = "ChangeAssignee_waiting_for_selection"]
            /\ Render(u, {Btn("select_assignee", t, n) : n \in Users \cup {None}})
    /\ UNCHANGED <<tasks, take, takeLog, lastWrite>>

\* statuses.py callback_select_assignee: UPDATE tasks SET assigned_to_id = ? (status untouched)
callback_select_assignee(u, t, new_assignee) ==
    /\ Btn("select_assignee", t, new_assignee) \in buttons[u]
    /\ IF role(u) # "admin"
       THEN UNCHANGED tasks
       ELSE IF new_assignee # None /\ tasks[t].assigned_to_id = new_assignee
       THEN UNCHANGED tasks
       ELSE tasks' = [tasks EXCEPT ![t].assigned_to_id = new_assignee]
    /\ fsm' = Clear(u)
    /\ UNCHANGED <<buttons, take, takeLog, lastWrite>>

\* core.py callback_cancel; every message that starts a flow carries the cancel button,
\* and before any flow the FSM entry is empty already
callback_cancel(u) ==
    /\ fsm[u] # EmptyData
    /\ fsm' = Clear(u)
    /\ UNCHANGED <<tasks, buttons, take, takeLog, lastWrite>>

\* database.py: the CHECK on task_history.change_type
HistoryChangeTypes == {"status", "priority", "assignee", "due_date", "title", "description",
                       "created", "reopened"}

\* services/task_history.py add_task_history_entry: the INSERT; a change_type the CHECK
\* refuses raises IntegrityError, which the function catches and rolls back
add_task_history_entry(task_id, user_id, change_type) ==
    IF change_type \in HistoryChangeTypes
    THEN Append(task_history, [task_id |-> task_id, user_id |-> user_id,
                               change_type |-> change_type])
    ELSE task_history

\* comments.py callback_task_comments: the comments of a task, with the button to add one
callback_task_comments(u, t) ==
    /\ Render(u, {Btn("add_comment", t, None)})
    /\ UNCHANGED <<tasks, fsm, take, takeLog, lastWrite, auditVars>>

\* comments.py callback_add_comment
callback_add_comment(u, t) ==
    /\ Btn("add_comment", t, None) \in buttons[u]
    /\ fsm' = [fsm EXCEPT ![u].task_id = t, ![u].state = "Comment_waiting_for_comment_text"]
    /\ UNCHANGED <<tasks, buttons, take, takeLog, lastWrite, auditVars>>

\* comments.py process_comment_text: add_comment, then the only add_task_history_entry call
\* of the program, with change_type 'comment'
process_comment_text(u) ==
    /\ fsm[u].state = "Comment_waiting_for_comment_text"
    /\ Len(task_comments) < MaxComments
    /\ LET task_id == fsm[u].task_id IN
       IF task_id = 0
       THEN UNCHANGED auditVars
       ELSE /\ task_comments' = Append(task_comments, [task_id |-> task_id, user_id |-> u])
            /\ task_history' = add_task_history_entry(task_id, u, "comment")
    /\ fsm' = Clear(u)
    /\ UNCHANGED <<tasks, buttons, take, takeLog, lastWrite>>

\* ------------------------------------------------------------ handler notifications
\* tasks.created_by_id: tasks are created by the admin (core.py callback_create_task)
created_by_id(t) == "a1"

\* after conn.commit() a handler goes on to send its notification to the users in to, if
\* there are any: wrote tells whether the handler has come to its commit in this step
NotifiesText(u, op, t, to, wrote, said, text) ==
    /\ notice[u].pc = "idle"
    /\ notice' = [notice EXCEPT ![u] =
          IF wrote /\ to # {}
          THEN [pc |-> "sending", op |-> op, t |-> t, to |-> to, res |-> None, stmts |-> 0,
                said |-> said, text |-> text, before |-> tasks[t]]
          ELSE NoNotice]
Notifies(u, op, t, to, wrote) == NotifiesText(u, op, t, to, wrote, None, <<>>)

\* core.py callback_take_task with its notification to the task's creator (lines 814-875)
take_task_notify(u, t) ==
    /\ callback_take_task(u, t)
    /\ Notifies(u, "take", t, {created_by_id(t)}, ~(role(u) = "admin" \/ AlreadyAssigned(t)))

\* statuses.py callback_update_status with its notification to the other admins when a
\* free task is taken into work (lines 130-172)
update_status_notify(u, t, new_status) ==
    /\ callback_update_status(u, t, new_status)
    /\ Notifies(u, "update_status", t, Admins \ {u},
                MayUpdate(u, t) /\ new_status = "in_progress" /\ tasks[t].assigned_to_id = None)

\* photos.py callback_photo_no with its notification to the task's creator (lines 188-249)
photo_no_notify(u) ==
    /\ callback_photo_no(u)
    /\ LET t == fsm[u].task_id IN
       Notifies(u, "photo_no", t, IF t = 0 THEN {} ELSE {created_by_id(t)},
                t # 0 /\ fsm[u].new_status # None)

\* statuses.py process_reopen_comment with its notification to the assignee (lines 433-481)
reopen_notify(u) ==
    /\ process_reopen_comment(u)
    /\ LET t == fsm[u].task_id IN
       Notifies(u, "reopen", t,
                IF t = 0 \/ tasks[t].assigned_to_id = None THEN {} ELSE {tasks[t].assigned_to_id},
                role(u) = "admin" /\ t # 0)

\* statuses.py process_reopen_comment, lines 452-463: the f-string of the notification
\* with the task and the admin's comment; the mutant's text ends before the comment
assignee_message_short(t, comment) == <<"reopened", t>>
assignee_message(t, comment) == <<"reopened", t, comment>>

\* statuses.py process_reopen_comment called with the message text comment (line 364)
process_reopen_comment_said(u, comment) ==
    /\ process_reopen_comment(u)
    /\ LET t == fsm[u].task_id IN
       NotifiesText(u, "reopen", t,
                    IF t = 0 \/ tasks[t].assigned_to_id = None THEN {}
                    ELSE {tasks[t].assigned_to_id},
                    role(u) = "admin" /\ t # 0,
                    comment, IF t = 0 THEN <<>> ELSE assignee_message(t, comment))

\* the tasks table after a notification's send has raised: the except clause around the
\* send logs the error and nothing else; in the mutant it restores the row
notice_raised_rolls_back(ts, n) == [ts EXCEPT ![n.t] = n.before]
notice_raised(ts, n) == ts

\* bot.send_message of a handler's notification returns (ok) or raises; the handler goes
\* on to the next recipient, and after the last one to its confirmation
notice_done(u, ok) ==
    /\ notice[u].pc = "sending"
    /\ LET a == CHOOSE x \in notice[u].to : TRUE
           rest == notice[u].to \ {a}
       IN notice' = [notice EXCEPT ![u] =
              IF rest = {}
              THEN [@ EXCEPT !.pc = "idle", !.to = {}, !.res = IF ok THEN "sent" ELSE "failed"]
              ELSE [@ EXCEPT !.to = rest]]
    /\ tasks' = IF ok THEN tasks ELSE notice_raised(tasks, notice[u])
    /\ UNCHANGED <<fsm, buttons, take, takeLog, lastWrite>>

\* the UPDATE or the commit of a transition handler raises sqlite3.Error: the handler's
\* except clause answers the error, nothing is written and no notification is sent;
\* process_reopen_comment clears the state there (line 498), the others keep it
handler_store_raises(u, op) ==
    /\ notice[u].pc = "idle"
    /\ CASE op = "take" -> \E t \in Tasks : Btn("take", t, None) \in buttons[u]
         [] op = "update_status" ->
               \E t \in Tasks, st \in Statuses \ CompletedStatuses :
                   Btn("status", t, st) \in buttons[u] /\ MayUpdate(u, t)
         [] op = "photo_no" -> Btn("photo_no", 0, None) \in buttons[u] /\ fsm[u].task_id # 0
         [] OTHER -> fsm[u].state = "ReopenTask_waiting_for_comment" /\ role(u) = "admin"
    /\ notice' = [notice EXCEPT ![u] = [NoNotice EXCEPT !.op = op, !.res = "store_error"]]
    /\ fsm' = IF op = "reopen" THEN Clear(u) ELSE fsm
    /\ UNCHANGED <<tasks, buttons, take, takeLog, lastWrite>>

\* ------------------------------------------------------------ the completion's transaction
\* photos.py callback_photo_no, lines 127-138: the statements the handler executes on its
\* connection, the UPDATE of the task and one INSERT per photo of the FSM data d
completion_statements(d) ==
    <<[op |-> "UPDATE",
       photo |-> IF d.completion_photos # <<>> THEN d.completion_photos[1] ELSE 0]>>
    \o [i \in 1..Len(d.completion_photos) |-> [op |-> "INSERT", photo |-> d.completion_photos[i]]]

\* cur.execute of one statement on the tables db as the connection sees them
execute(db, d, st) ==
    IF st.op = "UPDATE"
    THEN [db EXCEPT !.tasks = [@ EXCEPT ![d.task_id].status = d.new_status,
                                        ![d.task_id].completion_comment = d.comment,
                                        ![d.task_id].photo_file_id = st.photo]]
    ELSE [db EXCEPT !.task_photos = @ \cup {<<d.task_id, st.photo>>}]

\* the tables as the connection sees them after the first k statements
RECURSIVE executed(_, _, _, _)
executed(db, d, stmts, k) ==
    IF k = 0 THEN db ELSE execute(executed(db, d, stmts, k - 1), d, stmts[k])

\* database.py get_db_connection: sqlite3.connect with the default isolation level opens
\* a transaction at the first UPDATE, and conn.close() (photos.py 260) without
\* conn.commit() leaves the stored tables as they were; the mutant's connection commits
\* every statement by itself (isolation_level=None)
conn_close_autocommit(stored, working) == working
conn_close(stored, working) == stored

\* callback_photo_no whose k-th statement has been executed when sqlite3.Error is raised,
\* by the next statement or, after the last one, by conn.commit(): the except clause of
\* line 255 answers the error, the state is kept
photo_no_raises(u, k) ==
    /\ Btn("photo_no", 0, None) \in buttons[u]
    /\ fsm[u].task_id # 0 /\ fsm[u].new_status # None
    /\ notice[u].pc = "idle"
    /\ k \in 0..Len(completion_statements(fsm[u]))
    /\ IF u = FlowUser("completion")
       THEN /\ timers' = CancelTask(timers, pending["completion"].task)
            /\ pending' = [pending EXCEPT !["completion"] = NoEntry]
       ELSE UNCHANGED <<timers, pending>>
    /\ LET stored == [tasks |-> tasks, task_photos |-> task_photos]
           working == executed(stored, fsm[u], completion_statements(fsm[u]), k)
           left == conn_close(stored, working)
       IN /\ tasks' = left.tasks
          /\ task_photos' = left.task_photos
    /\ notice' = [notice EXCEPT ![u] = [NoNotice EXCEPT !.op = "photo_no", !.t = fsm[u].task_id,
                                                        !.res = "store_error",
                                                        !.stmts = k]]
    /\ UNCHANGED <<fsm, buttons, take, takeLog, lastWrite, time, sub, uploads>>

\* ------------------------------------------------------------ scheduler
\* services/notifications.py; times are whole minutes
minutes_until(t) == due[t] - now

\* the SELECT shared by the four get_* functions: JOIN users, active status
active_assigned(t) ==
    /\ tasks[t].assigned_to_id # None
    /\ tasks[t].status \notin {"completed", "partially_completed", "rejected"}

\* the mutant's window is one minute wide, narrower than the time between two scans
get_tasks_for_24h_reminder_narrow ==
    {t \in DOMAIN tasks : active_assigned(t) /\ minutes_until(t) = 8 * 60}
get_tasks_for_24h_reminder ==
    {t \in DOMAIN tasks : active_assigned(t) /\ 7 * 60 <= minutes_until(t) /\ minutes_until(t) <= 9 * 60}
\* the mutant's window reaches into the one of the 24h reminder
get_tasks_for_3h_reminder_wide ==
    {t \in DOMAIN tasks : active_assigned(t) /\ 210 <= minutes_until(t) /\ minutes_until(t) <= 450}
get_tasks_for_3h_reminder ==
    {t \in DOMAIN tasks : active_assigned(t) /\ 210 <= minutes_until(t) /\ minutes_until(t) <= 270}
get_tasks_for_1h_reminder ==
    {t \in DOMAIN tasks : active_assigned(t) /\ 1 <= minutes_until(t) /\ minutes_until(t) <= 60}
get_overdue_tasks ==
    {t \in DOMAIN tasks : active_assigned(t) /\ now - due[t] > 0 /\ now - due[t] < 24 * 60}

get_tasks(k) ==
    CASE k = "24h" -> get_tasks_for_24h_reminder
      [] k = "3h" -> get_tasks_for_3h_reminder
      [] k = "1h" -> get_tasks_for_1h_reminder
      [] OTHER -> get_overdue_tasks

\* fetchall() of a set of rows, by id
RECURSIVE SeqOf(_)
SeqOf(S) ==
    IF S = {} THEN <<>>
    ELSE LET m == CHOOSE x \in S : \A y \in S : x <= y IN <<m>> \o SeqOf(S \ {m})

check_notification_sent_never(t, k) == FALSE
check_notification_sent(t, k) ==
    \E r \in task_notifications : r.task_id = t /\ r.notification_type = k

\* INSERT OR IGNORE under UNIQUE(task_id, notification_type)
mark_notification_sent(t, k) ==
    IF check_notification_sent(t, k)
    THEN task_notifications
    ELSE task_notifications \cup {[task_id |-> t, notification_type |-> k]}

Bump(n) == IF n < MaxDeliveries THEN n + 1 ELSE n

\* notification_scheduler: the sleep between two scans ends and the next scan begins
scan_start(s) ==
    /\ sched[s].pc = "sleeping"
    /\ sched' = [sched EXCEPT ![s] = [IdleScan EXCEPT !.pc = "select", !.kind = 1]]
    /\ UNCHANGED <<now, due, task_notifications, delivered, adminAlerts>>

\* check_and_send_notifications: the get_* call of the current kind; an empty list
\* passes to the next kind, and after the last kind the scan is over
select_tasks(s) ==
    /\ sched[s].pc = "select"
    /\ LET i == sched[s].kind
           q == SeqOf(get_tasks(KindOrder[i]))
       IN sched' = [sched EXCEPT ![s] =
              IF q # <<>> THEN [@ EXCEPT !.pc = "check", !.queue = q]
              ELSE IF i < Len(KindOrder) THEN [@ EXCEPT !.kind = i + 1]
              ELSE IdleScan]
    /\ UNCHANGED <<now, due, task_notifications, delivered, adminAlerts>>

\* datetime.strptime(text, '%H:%M').time(), and now.time(): a time of day, in minutes
strptime(text) == text[1] * 60 + text[2]
current_time == (StartHour * 60 + now) % (24 * 60)

\* services/notification_settings.py is_quiet_hours; the mutant takes no window past midnight
is_quiet_hours_no_wrap(u) ==
    LET start_time == strptime(settings[u].quiet_hours_start)
        end_time == strptime(settings[u].quiet_hours_end)
    IN start_time <= current_time /\ current_time < end_time
is_quiet_hours(u) ==
    LET start_time == strptime(settings[u].quiet_hours_start)
        end_time == strptime(settings[u].quiet_hours_end)
    IN IF start_time > end_time
       THEN current_time >= start_time \/ current_time < end_time
       ELSE start_time <= current_time /\ current_time < end_time

\* services/notification_settings.py should_send_notification; the mutant always sends
should_send_notification_always(u, k) == TRUE
should_send_notification(u, k) ==
    IF is_quiet_hours(u) THEN FALSE ELSE settings[u].enable[k]

\* send_24h_reminder, send_3h_reminder, send_1h_reminder, send_overdue_notification up to
\* the first await: the dedup lookup (not for 1h) and should_send_notification for the
\* task's assignee (the row read by the get_* call; no handler that reassigns a task runs
\* beside the scheduler here)
send_check(s) ==
    /\ sched[s].pc = "check"
    /\ LET t == Head(sched[s].queue)
           k == KindOrder[sched[s].kind]
           enabled == should_send_notification(tasks[t].assigned_to_id, k)
       IN sched' = [sched EXCEPT ![s] =
              IF k \in DedupKinds /\ check_notification_sent(t, k)
              THEN [@ EXCEPT !.pc = "pause", !.res = "already_sent"]
              ELSE IF ~enabled
              THEN [@ EXCEPT !.pc = "pause", !.res = "disabled"]
              ELSE [@ EXCEPT !.pc = "sending", !.res = None]]
    /\ UNCHANGED <<now, due, task_notifications, delivered, adminAlerts>>

\* the except clause around bot.send_message in a reminder's send function: the error is
\* logged and the function returns; in the mutant the error ends the scan
send_raised_ends_scan(r) == IdleScan
send_raised(r) == [r EXCEPT !.pc = "pause", !.res = "failed"]

\* bot.send_message to the assignee returns (ok) or raises; the reminders mark after a
\* successful send, the overdue notification goes on to the admins either way
send_done(s, ok) ==
    /\ sched[s].pc = "sending"
    /\ LET t == Head(sched[s].queue)
           k == KindOrder[sched[s].kind]
           sent == IF ok THEN sched[s].sent \cup {<<t, k>>} ELSE sched[s].sent
           failed == IF ok THEN sched[s].failed ELSE sched[s].failed \cup {<<t, k>>}
           r == [sched[s] EXCEPT !.sent = sent, !.failed = failed]
       IN /\ delivered' = IF ok THEN [delivered EXCEPT ![t][k] = Bump(@)] ELSE delivered
          /\ IF k = "overdue"
             THEN IF Admins = {}
                  THEN /\ task_notifications' = mark_notification_sent(t, k)
                       /\ sched' = [sched EXCEPT ![s] = [r EXCEPT !.pc = "pause", !.res = "sent"]]
                  ELSE /\ sched' = [sched EXCEPT ![s] =
                                        [r EXCEPT !.pc = "sending_admin", !.admins = Admins]]
                       /\ UNCHANGED task_notifications
             ELSE /\ task_notifications' =
                        IF ok /\ k \in DedupKinds THEN mark_notification_sent(t, k)
                        ELSE task_notifications
                  /\ sched' = [sched EXCEPT ![s] =
                                   IF ok THEN [r EXCEPT !.pc = "pause", !.res = "sent"]
                                   ELSE send_raised(r)]
    /\ UNCHANGED <<now, due, adminAlerts>>

\* send_overdue_notification, the admins still to be sent to after the send to one admin
\* has raised: the except clause inside the for loop logs the error and the loop goes on;
\* the mutant leaves the loop
admin_send_raised_breaks(rest) == {}
admin_send_raised(rest) == rest

\* send_overdue_notification, the loop over get_all_admins(): one send returns or raises;
\* after the last admin the notification is marked
send_admin_done(s, ok) ==
    /\ sched[s].pc = "sending_admin"
    /\ LET t == Head(sched[s].queue)
           a == CHOOSE x \in sched[s].admins : TRUE
           rest == IF ok THEN sched[s].admins \ {a}
                   ELSE admin_send_raised(sched[s].admins \ {a})
       IN /\ adminAlerts' = IF ok THEN [adminAlerts EXCEPT ![t][a] = Bump(@)] ELSE adminAlerts
          /\ IF rest = {}
             THEN /\ task_notifications' = mark_notification_sent(t, "overdue")
                  /\ sched' = [sched EXCEPT ![s].pc = "pause", ![s].admins = {},
                                            ![s].res = "sent"]
             ELSE /\ sched' = [sched EXCEPT ![s].admins = rest]
                  /\ UNCHANGED task_notifications
    /\ UNCHANGED <<now, due, delivered>>

\* check_and_send_notifications: asyncio.sleep(0.5) after a task ends; the next task of the
\* list, or the next kind, or the end of the scan
pause_done(s) ==
    /\ sched[s].pc = "pause"
    /\ LET rest == Tail(sched[s].queue)
           i == sched[s].kind
       IN sched' = [sched EXCEPT ![s] =
              IF rest # <<>> THEN [@ EXCEPT !.pc = "check", !.queue = rest, !.res = None]
              ELSE IF i < Len(KindOrder)
              THEN [@ EXCEPT !.pc = "select", !.kind = i + 1, !.queue = <<>>, !.res = None]
              ELSE IdleScan]
    /\ UNCHANGED <<now, due, task_notifications, delivered, adminAlerts>>

\* an hour passes
Tick ==
    /\ now < MaxNow * 60
    /\ now' = now + 60
    /\ UNCHANGED <<due, task_notifications, sched, delivered, adminAlerts>>

\* services/notification_settings.py create_default_settings: the INSERT under
\* UNIQUE(user_id) (database.py 184) raises sqlite3.IntegrityError when the user has a
\* row, and stores nothing then
create_default_settings(tbl, u) ==
    IF tbl[u].rows > 0
    THEN [table |-> tbl, raised |-> TRUE, result |-> NoSettings]
    ELSE [table |-> [tbl EXCEPT ![u] = DefaultSettings], raised |-> FALSE,
          result |-> DefaultSettings]

\* services/notification_settings.py get_user_notification_settings on the table tbl: the
\* table after the call and the dict returned; the mutant writes the defaults over the
\* user's row whenever it is called (no test of the SELECT's result, INSERT OR REPLACE)
get_user_notification_settings_resets(tbl, u) ==
    [table |-> [tbl EXCEPT ![u] = DefaultSettings], raised |-> FALSE,
     result |-> DefaultSettings]
get_user_notification_settings(tbl, u) ==
    IF tbl[u].rows = 0
    THEN create_default_settings(tbl, u)
    ELSE [table |-> tbl, raised |-> FALSE, result |-> tbl[u]]

\* handlers/notification_settings.py callback_notification_settings: the settings menu
\* shows what get_user_notification_settings returns
callback_notification_settings(u) ==
    /\ settings' = get_user_notification_settings(settings, u).table
    /\ UNCHANGED lifeVars

\* services/notification_settings.py should_send_notification called by a scan for user u:
\* its first statement is get_user_notification_settings
should_send_reads(u) ==
    /\ settings' = get_user_notification_settings(settings, u).table
    /\ settings' # settings
    /\ UNCHANGED lifeVars

\* handlers/notification_settings.py callback_toggle_notification: the settings menu, which
\* the main menu opens, has one switch per kind; update_notification_setting calls
\* get_user_notification_settings before its UPDATE
callback_toggle_notification(u, k) ==
    /\ settings' = [get_user_notification_settings(settings, u).table
                       EXCEPT ![u].enable[k] = ~@]
    /\ UNCHANGED lifeVars

\* callback_set_quiet_hours: shows the quiet hours get_user_notification_settings returns
callback_set_quiet_hours(u) ==
    /\ fsm' = [fsm EXCEPT ![u].state = "NotificationSettings_waiting_for_quiet_hours_start"]
    /\ settings' = get_user_notification_settings(settings, u).table
    /\ UNCHANGED <<tasks, buttons, take, takeLog, lastWrite>>

\* process_quiet_hours_start: a text that strptime refuses is answered and the state kept
process_quiet_hours_start(u, time_text) ==
    /\ fsm[u].state = "NotificationSettings_waiting_for_quiet_hours_start"
    /\ fsm' = IF ValidTime(time_text)
              THEN [fsm EXCEPT ![u].quiet_hours_start = time_text,
                               ![u].state = "NotificationSettings_waiting_for_quiet_hours_end"]
              ELSE fsm
    /\ UNCHANGED <<tasks, buttons, take, takeLog, lastWrite, settings>>

\* process_quiet_hours_end: the two update_notification_setting calls, then state.clear()
process_quiet_hours_end(u, time_text) ==
    /\ fsm[u].state = "NotificationSettings_waiting_for_quiet_hours_end"
    /\ IF ValidTime(time_text)
       THEN /\ settings' = [get_user_notification_settings(settings, u).table
                               EXCEPT ![u].quiet_hours_start = fsm[u].quiet_hours_start,
                                      ![u].quiet_hours_end = time_text]
            /\ fsm' = Clear(u)
       ELSE UNCHANGED <<fsm, settings>>
    /\ UNCHANGED <<tasks, buttons, take, takeLog, lastWrite>>

\* a minute passes while the scan waits for bot.send_message to return
ScanMinute(s) ==
    /\ sched[s].pc \in {"sending", "sending_admin"}
    /\ sched[s].waited < MaxScanMinutes
    /\ now' = now + 1
    /\ sched' = [sched EXCEPT ![s].waited = @ + 1]
    /\ UNCHANGED <<due, task_notifications, delivered, adminAlerts>>

\* ------------------------------------------------------------ photo menus
\* handlers/photos.py: the uploads of the two flows and their delayed menus
time_time == <<time, sub>>
IsLive(tm) == tm.st \in {"new", "sleeping"}

\* process_completion_photo up to its await (lines 324-356): the photo is appended to the
\* FSM data key completion_photos
process_completion_photo(u) ==
    /\ u = FlowUser("completion")
    /\ fsm[u].state = "CompleteTask_waiting_for_photo"
    /\ Len(uploads) < MaxPhotos
    /\ LET photo_file_id == Len(uploads) + 1 IN
       fsm' = [fsm EXCEPT ![u].completion_photos = Append(@, photo_file_id)]
    /\ uploads' = Append(uploads, [flow |-> "completion", at |-> time, pc |-> "ack",
                                   created |-> FALSE])
    /\ timers' = Append(timers, NoTimer)
    /\ UNCHANGED <<tasks, buttons, take, takeLog, lastWrite, time, sub, pending, task_photos>>

\* process_completion_photo after message.answer has returned (lines 358-367): the menu
\* task is created and stored; the task stored before is not cancelled
completion_photo_registered(p) ==
    /\ uploads[p].pc = "ack" /\ uploads[p].flow = "completion"
    /\ uploads' = [uploads EXCEPT ![p].pc = "done"]
    /\ timers' = [timers EXCEPT ![p].st = "new"]
    /\ pending' = [pending EXCEPT !["completion"] = [task |-> p, timestamp |-> time_time]]
    /\ UNCHANGED <<lifeVars, time, sub, task_photos>>

\* show_completion_menu_after_delay runs up to asyncio.sleep(delay) (lines 263-277); a
\* task cancelled before its first step never runs its body
show_completion_menu_start(p) ==
    /\ timers[p].st = "new" /\ uploads[p].flow = "completion"
    /\ timers' = [timers EXCEPT ![p] =
          IF @.cancelReq THEN [@ EXCEPT !.st = "cancelled"]
          ELSE [@ EXCEPT !.st = "sleeping", !.due = time + CompletionDelay]]
    /\ UNCHANGED <<lifeVars, time, sub, uploads, pending, task_photos>>

\* the sleep is over (lines 287-319): the menu is shown if the stored task is this task
show_completion_menu_fire(p) ==
    /\ timers[p].st = "sleeping" /\ uploads[p].flow = "completion"
    /\ ~timers[p].cancelReq
    /\ time >= timers[p].due
    /\ LET u == FlowUser("completion")
           stored_task == pending["completion"].task
       IN IF stored_task # p
          THEN /\ timers' = [timers EXCEPT ![p].st = "done", ![p].sup = (stored_task # 0),
                                           ![p].at = time]
               /\ UNCHANGED <<pending, buttons>>
          ELSE /\ pending' = [pending EXCEPT !["completion"] = NoEntry]
               /\ timers' = [timers EXCEPT ![p].st = "done", ![p].prompted = TRUE,
                                           ![p].held = TRUE,
                                           ![p].cleared = TRUE, ![p].at = time,
                                           ![p].count = Len(fsm[u].completion_photos),
                                           ![p].stored = Len(fsm[u].completion_photos)]
               /\ Render(u, {Btn("photo_no", 0, None)})
    /\ UNCHANGED <<tasks, fsm, take, takeLog, lastWrite, time, sub, uploads, task_photos>>

\* CancelledError is raised at the sleep (lines 278-285)
show_completion_menu_cancelled(p) ==
    /\ timers[p].st = "sleeping" /\ uploads[p].flow = "completion"
    /\ timers[p].cancelReq
    /\ LET stored_task == pending["completion"].task
       IN /\ pending' = IF stored_task # 0 /\ stored_task = p
                        THEN [pending EXCEPT !["completion"] = NoEntry] ELSE pending
          /\ timers' = [timers EXCEPT ![p].st = "cancelled", ![p].held = (stored_task = p),
                                      ![p].sup = (stored_task \notin {0, p})]
    /\ UNCHANGED <<lifeVars, time, sub, uploads, task_photos>>

\* photos.py process_task_photo, lines 464-465: data = await state.get_data();
\* task_id = data.get('task_id').  MemoryStorage answers without suspending the handler, and
\* nothing is awaited from here to state.update_data(task_id=task_id) of line 1048; in the
\* mutant the handler has read the data before the handler of an earlier photo stored the id
data_get_task_id_stale(u) == 0
data_get_task_id(u) == fsm[u].task_id

\* cur.lastrowid after INSERT INTO tasks (line 1034): the id after those given so far
lastrowid == NewTask + Cardinality({p \in 1..Len(uploads) : uploads[p].created})

\* process_task_photo up to the await: create_task_with_photo (lines 926-1075) for the
\* first photo, add_photo_to_task (lines 623-662) for a later one; the photo row is
\* inserted and committed
\* created is history: the handler of the upload has inserted a row into tasks
process_task_photo(u) ==
    /\ u = FlowUser("creation")
    /\ fsm[u].state = "CreateTask_waiting_for_task_photo"
    /\ Len(uploads) < MaxPhotos
    /\ LET photo_file_id == Len(uploads) + 1
           task_id == data_get_task_id(u)
       IN /\ IF task_id = 0
             THEN /\ tasks' = (lastrowid :> [status |-> "pending", assigned_to_id |-> "e1",
                                             completion_comment |-> None,
                                             photo_file_id |-> 0]) @@ tasks
                  /\ due' = (lastrowid :> DueDate * 60) @@ due
                  /\ task_photos' = task_photos \cup {<<lastrowid, photo_file_id>>}
                  /\ fsm' = [fsm EXCEPT ![u].task_id = lastrowid]
             ELSE /\ task_photos' = task_photos \cup {<<task_id, photo_file_id>>}
                  /\ UNCHANGED <<tasks, due, fsm>>
          /\ uploads' = Append(uploads, [flow |-> "creation", at |-> time, pc |-> "ack",
                                         created |-> (task_id = 0)])
    /\ timers' = Append(timers, NoTimer)
    /\ UNCHANGED <<buttons, take, takeLog, lastWrite, time, sub, pending>>

\* after message.answer has returned (lines 663-682, 1079-1096): the task stored before
\* is cancelled, the new one is created and stored with the handler's time.time()
task_photo_registered(p) ==
    /\ uploads[p].pc = "ack" /\ uploads[p].flow = "creation"
    /\ uploads' = [uploads EXCEPT ![p].pc = "done"]
    /\ timers' = [CancelTask(timers, pending["creation"].task) EXCEPT ![p].st = "new"]
    /\ pending' = [pending EXCEPT !["creation"] = [task |-> p, timestamp |-> time_time]]
    /\ UNCHANGED <<lifeVars, due, time, sub, task_photos>>

\* show_task_photo_menu_after_delay runs up to asyncio.sleep(delay) (lines 475-488): it
\* takes its own time.time()
show_task_photo_menu_start(p) ==
    /\ timers[p].st = "new" /\ uploads[p].flow = "creation"
    /\ timers' = [timers EXCEPT ![p] =
          IF @.cancelReq THEN [@ EXCEPT !.st = "cancelled"]
          ELSE [@ EXCEPT !.st = "sleeping", !.due = time + TaskPhotoDelay,
                         !.own = time_time]]
    /\ UNCHANGED <<lifeVars, due, time, sub, uploads, pending, task_photos>>

\* the sleep is over (lines 498-553): the menu is shown if the stored timestamp is the
\* task's own
show_task_photo_menu_fire(p) ==
    /\ timers[p].st = "sleeping" /\ uploads[p].flow = "creation"
    /\ ~timers[p].cancelReq
    /\ time >= timers[p].due
    /\ LET entry == pending["creation"]
           photo_count == Cardinality({r \in task_photos : r[1] = NewTask})
       IN IF entry.task = 0 \/ entry.timestamp # timers[p].own
          THEN /\ timers' = [timers EXCEPT ![p].st = "done", ![p].at = time,
                                           ![p].held = (entry.task = p),
                                           ![p].sup = (entry.task \notin {0, p}),
                                           ![p].stored = photo_count]
               /\ UNCHANGED pending
          ELSE /\ pending' = [pending EXCEPT !["creation"] = NoEntry]
               /\ timers' = [timers EXCEPT ![p].st = "done", ![p].prompted = TRUE,
                                           ![p].cleared = TRUE, ![p].at = time,
                                           ![p].held = (entry.task = p),
                                           ![p].sup = (entry.task # p),
                                           ![p].clobbered = (entry.task # p),
                                           ![p].count = photo_count,
                                           ![p].stored = photo_count]
    /\ UNCHANGED <<lifeVars, due, time, sub, uploads, task_photos>>

\* CancelledError is raised at the sleep (lines 489-496)
show_task_photo_menu_cancelled(p) ==
    /\ timers[p].st = "sleeping" /\ uploads[p].flow = "creation"
    /\ timers[p].cancelReq
    /\ LET entry == pending["creation"]
           hit == entry.task # 0 /\ entry.timestamp = timers[p].own
       IN /\ pending' = IF hit THEN [pending EXCEPT !["creation"] = NoEntry] ELSE pending
          /\ timers' = [timers EXCEPT ![p].st = "cancelled", ![p].held = (entry.task = p),
                                      ![p].sup = (entry.task \notin {0, p}),
                                      ![p].clobbered = (hit /\ entry.task # p)]
    /\ UNCHANGED <<lifeVars, due, time, sub, uploads, task_photos>>

\* the process stops and starts again: MemoryStorage, _pending_photo_menus and the running
\* coroutines are gone, the database stays
Restart ==
    /\ fsm' = [u \in Users |-> EmptyData]
    /\ pending' = [f \in Flows |-> NoEntry]
    /\ timers' = [p \in 1..Len(timers) |->
                     IF IsLive(timers[p]) THEN [timers[p] EXCEPT !.st = "dead"] ELSE timers[p]]
    /\ uploads' = [p \in 1..Len(uploads) |->
                     IF uploads[p].pc = "ack" THEN [uploads[p] EXCEPT !.pc = "dead"]
                     ELSE uploads[p]]
    /\ take' = [u \in Users |-> IdleTake]
    /\ UNCHANGED <<tasks, buttons, takeLog, lastWrite, due, time, sub, task_photos>>

\* time.time() moves on within the second
SubTick ==
    /\ sub < MaxSub
    /\ sub' = sub + 1
    /\ UNCHANGED <<lifeVars, due, time, uploads, timers, pending, task_photos>>

\* a second passes: no menu task is waiting for its first step or for a wake-up that is
\* due, and no handler has waited MaxAckDelay for its acknowledgement
SecondTick ==
    /\ time < MaxTime
    /\ \A p \in 1..Len(timers) :
          /\ timers[p].st # "new"
          /\ timers[p].st = "sleeping" => (~timers[p].cancelReq /\ timers[p].due > time)
          /\ uploads[p].pc = "ack" => time - uploads[p].at < MaxAckDelay
    /\ time' = time + 1
    /\ sub' = 0
    /\ UNCHANGED <<lifeVars, due, uploads, timers, pending, task_photos>>

\* core.py callback_back_to_main: state.clear() and the main menu; the button is on the
\* message that asks for the photos
callback_back_to_main(u) ==
    /\ fsm[u] # EmptyData
    /\ fsm' = Clear(u)
    /\ UNCHANGED <<tasks, buttons, take, takeLog, lastWrite>>

\* ------------------------------------------------------------ specifications
\* the claim race alone: employees open tasks and press "take" (get_task_keyboard gives an
\* admin no "take" button)
NextClaim ==
 /\ UNCHANGED <<schedVars, aggVars, auditVars, noticeVars, settings>>
 /\ \/ \E u \in Employees, t \in Tasks : callback_task_details(u, t)
    \/ \E u \in Users, t \in Tasks : take_dispatch(u, t)
    \/ \E u \in Users : take_run(u)
    \/ \E u \in Users : take_answer(u)

SpecClaim == Init /\ [][NextClaim]_vars

\* the lifecycle handlers together
NextLife ==
 /\ UNCHANGED <<schedVars, auditVars, noticeVars, settings>>
 /\ \/ \E u \in Reporters : callback_photo_no(u)
    \/ /\ UNCHANGED aggVars
       /\ \/ \E u \in LifeActors, t \in Tasks : callback_task_details(u, t)
          \/ \E u \in LifeActors, t \in Tasks : callback_take_task(u, t)
          \/ \E u \in LifeActors, t \in Tasks, s \in Statuses : callback_update_status(u, t, s)
          \/ \E u \in Reporters : process_completion_comment(u)
          \/ \E u \in LifeActors, t \in Tasks : callback_reopen_task(u, t)
          \/ \E u \in LifeActors : process_reopen_comment(u)
          \/ \E u \in LifeActors, t \in Tasks : callback_change_assignee(u, t)
          \/ \E u \in LifeActors, t \in Tasks, n \in Users \cup {None} :
                 callback_select_assignee(u, t, n)
          \/ \E u \in LifeActors : callback_cancel(u)

SpecLife == Init /\ [][NextLife]_vars

\* the transitions with their notifications: the store may fail in a handler, and the
\* Gateway may fail to deliver a notification; the status buttons pressed are those of
\* NotifyStatuses
NotifyStatuses == {"in_progress", "completed"}

NextNotify ==
 /\ UNCHANGED <<schedVars, auditVars, settings>>
 /\ \/ \E u \in Reporters : photo_no_notify(u)
    \/ /\ UNCHANGED aggVars
       /\ \/ /\ UNCHANGED noticeVars
             /\ \/ \E u \in LifeActors, t \in Tasks : callback_task_details(u, t)
                \/ \E u \in Reporters : process_completion_comment(u)
                \/ \E u \in LifeActors, t \in Tasks : callback_reopen_task(u, t)
          \/ \E u \in LifeActors, t \in Tasks : take_task_notify(u, t)
          \/ \E u \in LifeActors, t \in Tasks, s \in NotifyStatuses :
                 update_status_notify(u, t, s)
          \/ \E u \in LifeActors : reopen_notify(u)
          \/ \E u \in LifeActors, ok \in BOOLEAN : notice_done(u, ok)
          \/ \E u \in LifeActors, op \in {"take", "update_status", "photo_no", "reopen"} :
                 handler_store_raises(u, op)

SpecNotify == Init /\ [][NextNotify]_vars

\* the scheduler: tasks are assigned and in progress, the clock runs, loop 1 scans
InitSched ==
    /\ SchedInit
    /\ AggInit
    /\ AuditInit
    /\ NoticeInit
    /\ SettingsInit
    /\ tasks = [t \in Tasks |-> [status |-> "in_progress", assigned_to_id |-> "e1",
                                 completion_comment |-> None, photo_file_id |-> 0]]
    /\ fsm = [u \in Users |-> EmptyData]
    /\ buttons = [u \in Users |-> {}]
    /\ take = [u \in Users |-> IdleTake]
    /\ takeLog = {}
    /\ lastWrite = NoWrite

ScanStep(s) ==
    \/ scan_start(s)
    \/ select_tasks(s)
    \/ send_check(s)
    \/ \E ok \in BOOLEAN : send_done(s, ok)
    \/ \E ok \in BOOLEAN : send_admin_done(s, ok)
    \/ pause_done(s)

NextSched ==
 /\ UNCHANGED <<lifeVars, aggVars, auditVars, noticeVars, settings>>
 /\ \/ ScanStep(1)
    \/ Tick

SpecSched == InitSched /\ [][NextSched]_vars

\* two scheduler loops run side by side
NextOverlap ==
 /\ UNCHANGED <<lifeVars, aggVars, auditVars, noticeVars, settings>>
 /\ \/ \E s \in Scanners : ScanStep(s)
    \/ Tick

SpecOverlap == InitSched /\ [][NextOverlap]_vars

\* the tasks are assigned and in progress, nobody is in a dialogue
AssignedInit ==
    /\ tasks = [t \in Tasks |-> [status |-> "in_progress", assigned_to_id |-> "e1",
                                 completion_comment |-> None, photo_file_id |-> 0]]
    /\ fsm = [u \in Users |-> EmptyData]
    /\ buttons = [u \in Users |-> {}]
    /\ take = [u \in Users |-> IdleTake]
    /\ takeLog = {}
    /\ lastWrite = NoWrite

\* the classification: the scheduler starts at any minute up to MaxOverdueHours after the
\* due date, one scan after the other runs, and minutes pass while a scan is sending
InitClassify ==
    /\ \E n \in 0..((DueDate + MaxOverdueHours) * 60) : SchedStart(n)
    /\ AggInit
    /\ AuditInit
    /\ NoticeInit
    /\ SettingsInit
    /\ AssignedInit

NextClassify ==
 /\ UNCHANGED <<lifeVars, aggVars, auditVars, noticeVars, settings>>
 /\ \/ ScanStep(1)
    \/ ScanMinute(1)

SpecClassify == InitClassify /\ [][NextClassify]_vars

\* the quiet hours: the scheduler starts at any half hour of a day, the assignee's quiet
\* hours being any two valid time texts, and scans
InitQuiet ==
    /\ \E n \in {30 * i : i \in 0..47} : SchedStart(n)
    /\ AggInit
    /\ AuditInit
    /\ NoticeInit
    /\ \E start, end \in {x \in TimeTexts : ValidTime(x)} :
          settings = [u \in Users |->
                         IF u = "e1"
                         THEN [DefaultSettings EXCEPT !.quiet_hours_start = start,
                                                      !.quiet_hours_end = end]
                         ELSE DefaultSettings]
    /\ AssignedInit

NextQuiet ==
 /\ UNCHANGED <<lifeVars, aggVars, auditVars, noticeVars, settings>>
 /\ ScanStep(1)

SpecQuiet == InitQuiet /\ [][NextQuiet]_vars

\* the preferences: the scheduler starts at any hour up to MaxNow, and the assignee
\* switches kinds on and off and sets the quiet hours while it scans
InitPrefs ==
    /\ \E h \in 0..MaxNow : SchedStart(h * 60)
    /\ AggInit
    /\ AuditInit
    /\ NoticeInit
    /\ SettingsInit
    /\ AssignedInit

NextPrefs ==
 /\ UNCHANGED <<aggVars, auditVars, noticeVars>>
 /\ \/ /\ UNCHANGED <<lifeVars, settings>>
       /\ ScanStep(1)
    \/ /\ UNCHANGED schedVars
       /\ \/ \E k \in Kinds : callback_toggle_notification("e1", k)
          \/ callback_set_quiet_hours("e1")
          \/ \E x \in FewTimeTexts : process_quiet_hours_start("e1", x)
          \/ \E x \in FewTimeTexts : process_quiet_hours_end("e1", x)

SpecPrefs == InitPrefs /\ [][NextPrefs]_vars

\* the readings of the clock at 23:30, at 02:00 and at 09:00 of the following day
NightInstants ==
    <<23 * 60 + 30 - StartHour * 60, 26 * 60 - StartHour * 60, 33 * 60 - StartHour * 60>>

\* the time between two calls of check_and_send_notifications passes: the clock reads n
\* when the next scan begins
sleep_until(s, n) ==
    /\ sched[s].pc = "sleeping"
    /\ n > now
    /\ now' = n
    /\ sched' = [sched EXCEPT ![s] = [IdleScan EXCEPT !.pc = "select", !.kind = 1]]
    /\ UNCHANGED <<due, task_notifications, delivered, adminAlerts>>

\* the night: the assignee has the default quiet hours 22:00-08:00; a scan runs at 23:30,
\* the next at 02:00 and the next at 09:00; the task is due at any hour up to a day after
\* DueDate
InitNight ==
    /\ now = NightInstants[1]
    /\ due \in [Tasks -> {h * 60 : h \in 0..(DueDate + 24)}]
    /\ task_notifications = {}
    /\ sched = [s \in Scanners |->
                   IF s = 1 THEN [IdleScan EXCEPT !.pc = "select", !.kind = 1] ELSE IdleScan]
    /\ delivered = [t \in Tasks |-> [k \in Kinds |-> 0]]
    /\ adminAlerts = [t \in Tasks |-> [a \in Admins |-> 0]]
    /\ AggInit
    /\ AuditInit
    /\ NoticeInit
    /\ SettingsInit
    /\ AssignedInit

NextNight ==
 /\ UNCHANGED <<lifeVars, aggVars, auditVars, noticeVars, settings>>
 /\ \/ select_tasks(1)
    \/ send_check(1)
    \/ \E ok \in BOOLEAN : send_done(1, ok)
    \/ \E ok \in BOOLEAN : send_admin_done(1, ok)
    \/ pause_done(1)
    \/ \E i \in 2..3 : now = NightInstants[i - 1] /\ sleep_until(1, NightInstants[i])

SpecNight == InitNight /\ [][NextNight]_vars

\* the rows of the tasks table once a further task has been created
AllTasks == 1..NewTask

\* several tasks: they are assigned and in progress, due at DueDate or four hours later,
\* and the clock reads three hours, one hour or one minute before DueDate, or one hour
\* after it
SeveralInit ==
    /\ now \in {(DueDate - 3) * 60, (DueDate - 1) * 60, DueDate * 60 - 1, (DueDate + 1) * 60}
    /\ due \in [AllTasks -> {DueDate * 60, (DueDate + 4) * 60}]
    /\ task_notifications = {}
    /\ delivered = [t \in AllTasks |-> [k \in Kinds |-> 0]]
    /\ adminAlerts = [t \in AllTasks |-> [a \in Admins |-> 0]]
    /\ tasks = [t \in AllTasks |-> [status |-> "in_progress", assigned_to_id |-> "e1",
                                    completion_comment |-> None, photo_file_id |-> 0]]
    /\ fsm = [u \in Users |-> EmptyData]
    /\ buttons = [u \in Users |-> {}]
    /\ take = [u \in Users |-> IdleTake]
    /\ takeLog = {}
    /\ lastWrite = NoWrite
    /\ AggInit
    /\ AuditInit
    /\ NoticeInit

\* the scheduler sleeps between two scans over several tasks; the quiet hours are empty
InitGateway ==
    /\ SeveralInit
    /\ sched = [s \in Scanners |-> IdleScan]
    /\ settings = [u \in Users |-> [DefaultSettings EXCEPT !.quiet_hours_start = <<0, 0>>,
                                                           !.quiet_hours_end = <<0, 0>>]]

\* the first scan of notification_scheduler has begun
InitLoop ==
    /\ SeveralInit
    /\ sched = [s \in Scanners |->
                   IF s = 1 THEN [IdleScan EXCEPT !.pc = "select", !.kind = 1] ELSE IdleScan]
    /\ settings = [u \in Users |-> [DefaultSettings EXCEPT !.quiet_hours_start = <<0, 0>>,
                                                           !.quiet_hours_end = <<0, 0>>]]

\* the Gateway fails: a scan runs over several tasks from its first kind to its last, a
\* send returns or raises, and minutes pass while the scan is sending
NextGateway ==
 /\ UNCHANGED <<lifeVars, aggVars, auditVars, noticeVars, settings>>
 /\ \/ select_tasks(1)
    \/ send_check(1)
    \/ \E ok \in BOOLEAN : send_done(1, ok)
    \/ \E ok \in BOOLEAN : send_admin_done(1, ok)
    \/ pause_done(1)
    \/ ScanMinute(1)

SpecGateway == InitLoop /\ [][NextGateway]_vars

\* a free task: as the first scan over several tasks, and the tasks after the first are
\* pending and have no assignee yet
InitFree ==
    /\ now \in {(DueDate - 3) * 60, (DueDate - 1) * 60, DueDate * 60 - 1, (DueDate + 1) * 60}
    /\ due \in [AllTasks -> {DueDate * 60, (DueDate + 4) * 60}]
    /\ task_notifications = {}
    /\ delivered = [t \in AllTasks |-> [k \in Kinds |-> 0]]
    /\ adminAlerts = [t \in AllTasks |-> [a \in Admins |-> 0]]
    /\ tasks = [t \in AllTasks |->
                   IF t = 1 THEN [status |-> "in_progress", assigned_to_id |-> "e1",
                                  completion_comment |-> None, photo_file_id |-> 0]
                   ELSE [status |-> "pending", assigned_to_id |-> None,
                         completion_comment |-> None, photo_file_id |-> 0]]
    /\ fsm = [u \in Users |-> EmptyData]
    /\ buttons = [u \in Users |-> {}]
    /\ take = [u \in Users |-> IdleTake]
    /\ takeLog = {}
    /\ lastWrite = NoWrite
    /\ AggInit
    /\ AuditInit
    /\ NoticeInit
    /\ sched = [s \in Scanners |->
                   IF s = 1 THEN [IdleScan EXCEPT !.pc = "select", !.kind = 1] ELSE IdleScan]
    /\ settings = [u \in Users |-> [DefaultSettings EXCEPT !.quiet_hours_start = <<0, 0>>,
                                                           !.quiet_hours_end = <<0, 0>>]]

SpecFree == InitFree /\ [][NextGateway]_vars

\* a call of the store raises sqlite3.Error in a get_* function, in check_notification_sent
\* or in should_send_notification: none of them has an except clause, nor has the send
\* function around these calls, and the error reaches the except clause of
\* check_and_send_notifications, which logs it and returns
store_raises(s) ==
    /\ sched[s].pc \in {"select", "check"}
    /\ sched' = [sched EXCEPT ![s] = [IdleScan EXCEPT !.res = "store_error"]]
    /\ UNCHANGED <<now, due, task_notifications, delivered, adminAlerts>>

\* the INSERT of mark_notification_sent raises after the send of a reminder: its except
\* clause rolls back and logs, and the send function returns
mark_raises(s) ==
    /\ sched[s].pc = "sending"
    /\ KindOrder[sched[s].kind] \in DedupKinds \ {"overdue"}
    /\ LET t == Head(sched[s].queue)
           k == KindOrder[sched[s].kind]
       IN /\ delivered' = [delivered EXCEPT ![t][k] = Bump(@)]
          /\ sched' = [sched EXCEPT ![s].pc = "pause", ![s].res = "store_error",
                                    ![s].sent = @ \cup {<<t, k>>}]
    /\ UNCHANGED <<now, due, task_notifications, adminAlerts>>

\* the store fails: as before, and any call of the store may raise
NextStore ==
 /\ UNCHANGED <<lifeVars, aggVars, auditVars, noticeVars, settings>>
 /\ \/ ScanStep(1)
    \/ ScanMinute(1)
    \/ store_raises(1)
    \/ mark_raises(1)

SpecStore == InitGateway /\ [][NextStore]_vars

\* notification_scheduler: check_and_send_notifications has returned, or an Exception has
\* left it; in seconds
scheduler_sleep(returned) == IF returned THEN ScanInterval ELSE ErrorInterval

\* whether check_and_send_notifications returns after a scan that ended with res: it does
\* whatever happened, its except clause catches every Exception raised in it
scan_returns(res) == TRUE

\* notification_scheduler: the sleep after a scan ends and the next scan begins
sleep_done(s) ==
    /\ sched[s].pc = "sleeping"
    /\ now' = now + scheduler_sleep(scan_returns(sched[s].res)) \div 60
    /\ sched' = [sched EXCEPT ![s] = [IdleScan EXCEPT !.pc = "select", !.kind = 1]]
    /\ UNCHANGED <<due, task_notifications, delivered, adminAlerts>>

\* the loop: notification_scheduler begins with a scan, sleeps, and scans again, until the
\* clock reads MaxNow hours; the store may fail, the Gateway may fail
NextLoop ==
 /\ UNCHANGED <<lifeVars, aggVars, auditVars, noticeVars, settings>>
 /\ \/ select_tasks(1)
    \/ send_check(1)
    \/ \E ok \in BOOLEAN : send_done(1, ok)
    \/ \E ok \in BOOLEAN : send_admin_done(1, ok)
    \/ pause_done(1)
    \/ store_raises(1)
    \/ now < MaxNow * 60 /\ sleep_done(1)

SpecLoop == InitLoop /\ [][NextLoop]_vars

\* bot.send_message to the assignee never returns: the await has no timeout of its own,
\* and the coroutine of the scan, which is the coroutine of the loop, stays suspended in it
send_stalls(s) ==
    /\ sched[s].pc = "sending"
    /\ sched' = [sched EXCEPT ![s].pc = "stalled"]
    /\ UNCHANGED <<now, due, task_notifications, delivered, adminAlerts>>

\* a send stalls: one scan after the other runs over several tasks, a send returns, raises
\* or never returns, and the assignee uses the settings menu meanwhile; the loop takes
\* every step it can take
\* a step of the loop's coroutine, which leaves everything else alone
LoopStep(s) == ScanStep(s) /\ UNCHANGED <<lifeVars, aggVars, auditVars, noticeVars, settings>>

NextStall ==
    \/ LoopStep(1)
    \/ send_stalls(1) /\ UNCHANGED <<lifeVars, aggVars, auditVars, noticeVars, settings>>
    \/ callback_toggle_notification("e1", "overdue") /\ UNCHANGED <<schedVars, aggVars, auditVars, noticeVars>>

SpecStall == InitGateway /\ [][NextStall]_vars /\ WF_vars(LoopStep(1))

\* the uploads: a user is in the photo step of a flow (the completion of task 1 after
\* the comment, or the creation of a task), photos arrive, the clock runs
InitUpload ==
    /\ SchedInit
    /\ AggInit
    /\ AuditInit
    /\ NoticeInit
    /\ SettingsInit
    /\ tasks = [t \in Tasks |-> [status |-> "in_progress", assigned_to_id |-> "e1",
                                 completion_comment |-> None, photo_file_id |-> 0]]
    /\ \E f \in Flows :
          fsm = [u \in Users |->
                    IF u # FlowUser(f) THEN EmptyData
                    ELSE IF f = "completion"
                    THEN [EmptyData EXCEPT !.state = "CompleteTask_waiting_for_photo",
                                           !.task_id = 1, !.new_status = "completed",
                                           !.comment = "text",
                                           !.request = <<1, "completed">>]
                    ELSE [EmptyData EXCEPT !.state = "CreateTask_waiting_for_task_photo"]]
    /\ buttons = [u \in Users |-> IF u = FlowUser("completion")
                                  THEN {Btn("photo_no", 0, None)} ELSE {}]
    /\ take = [u \in Users |-> IdleTake]
    /\ takeLog = {}
    /\ lastWrite = NoWrite

NextUpload ==
 /\ UNCHANGED <<now, task_notifications, sched, delivered, adminAlerts, auditVars, noticeVars, settings>>
 /\ \/ \E u \in Users : process_task_photo(u)
    \/ /\ UNCHANGED due
       /\ \/ \E u \in Users : process_completion_photo(u)
          \/ \E u \in Users : callback_photo_no(u)
          \/ \E p \in 1..Len(uploads) :
                \/ completion_photo_registered(p)
                \/ show_completion_menu_start(p)
                \/ show_completion_menu_fire(p)
                \/ show_completion_menu_cancelled(p)
                \/ task_photo_registered(p)
                \/ show_task_photo_menu_start(p)
                \/ show_task_photo_menu_fire(p)
                \/ show_task_photo_menu_cancelled(p)
          \/ Restart
          \/ SubTick
          \/ SecondTick

SpecUpload == InitUpload /\ [][NextUpload]_vars

\* leaving a flow: as the uploads, without restart, and the uploading user may press
\* "cancel" or "back_to_main" at any moment
NextCancel ==
 /\ UNCHANGED <<now, task_notifications, sched, delivered, adminAlerts, auditVars, noticeVars, settings>>
 /\ \/ \E u \in Users : process_task_photo(u)
    \/ /\ UNCHANGED due
       /\ \/ \E u \in Users : process_completion_photo(u)
          \/ \E u \in Users : callback_photo_no(u)
          \/ \E p \in 1..Len(uploads) :
                \/ completion_photo_registered(p)
                \/ show_completion_menu_start(p)
                \/ show_completion_menu_fire(p)
                \/ show_completion_menu_cancelled(p)
                \/ task_photo_registered(p)
                \/ show_task_photo_menu_start(p)
                \/ show_task_photo_menu_fire(p)
                \/ show_task_photo_menu_cancelled(p)
          \/ SecondTick
          \/ /\ UNCHANGED aggVars
             /\ \E f \in Flows : \/ callback_cancel(FlowUser(f))
                                 \/ callback_back_to_main(FlowUser(f))

SpecCancel == InitUpload /\ [][NextCancel]_vars

\* the completion's transaction: the photos of the completion arrive, and when the user
\* ends the flow the store may fail at any statement or at the commit
NextComplete ==
 /\ UNCHANGED <<schedVars, auditVars, settings>>
 /\ \/ \E u \in Reporters : photo_no_notify(u)
    \/ \E u \in Reporters, k \in 0..(MaxPhotos + 1) : photo_no_raises(u, k)
    \/ /\ UNCHANGED noticeVars
       /\ \/ \E u \in Reporters : process_completion_photo(u)
          \/ \E p \in 1..Len(uploads) : completion_photo_registered(p)
    \/ /\ UNCHANGED aggVars
       /\ \E u \in Reporters, ok \in BOOLEAN : notice_done(u, ok)

SpecComplete == InitUpload /\ [][NextComplete]_vars

\* the audit trail: within one second of the loop's clock a flow's photos arrive, the
\* completion is stored, the admin opens the task and reopens it, and comments are added
NextAudit ==
 /\ UNCHANGED <<now, task_notifications, sched, delivered, adminAlerts, settings, noticeVars>>
 /\ \/ UNCHANGED auditVars /\ \E u \in Users : process_task_photo(u)
    \/ /\ UNCHANGED <<due, auditVars>>
       /\ \/ \E u \in Users : process_completion_photo(u)
          \/ \E u \in Users : callback_photo_no(u)
          \/ \E p \in 1..Len(uploads) :
                \/ completion_photo_registered(p)
                \/ show_completion_menu_start(p)
                \/ show_completion_menu_cancelled(p)
                \/ task_photo_registered(p)
                \/ show_task_photo_menu_start(p)
                \/ show_task_photo_menu_cancelled(p)
    \/ /\ UNCHANGED <<due, aggVars>>
       /\ \/ /\ UNCHANGED auditVars
             /\ \/ \E u \in Auditors, t \in DOMAIN tasks : callback_task_details(u, t)
                \/ \E u \in Auditors, t \in DOMAIN tasks : callback_reopen_task(u, t)
                \/ \E u \in Auditors : process_reopen_comment(u)
          \/ \E u \in Auditors, t \in DOMAIN tasks : callback_task_comments(u, t)
          \/ \E u \in Auditors, t \in DOMAIN tasks : callback_add_comment(u, t)
          \/ \E u \in Auditors : process_comment_text(u)

SpecAudit == InitUpload /\ [][NextAudit]_vars

\* the texts an admin sends as the comment of a reopening
ReopenComments == {"redo the header", "not done"}

\* the reopening: every task is completed with a comment, by an assignee or without one;
\* the admins open tasks, press "reopen" and send their comment; the store may fail and
\* the Gateway may fail to deliver the notification
InitReopen ==
    /\ SchedInit
    /\ AggInit
    /\ AuditInit
    /\ NoticeInit
    /\ SettingsInit
    /\ \E who \in [Tasks -> Employees \cup {None}] :
          tasks = [t \in Tasks |-> [status |-> "completed", assigned_to_id |-> who[t],
                                    completion_comment |-> "text", photo_file_id |-> 0]]
    /\ fsm = [u \in Users |-> EmptyData]
    /\ buttons = [u \in Users |-> {}]
    /\ take = [u \in Users |-> IdleTake]
    /\ takeLog = {}
    /\ lastWrite = NoWrite

NextReopen ==
 /\ UNCHANGED <<schedVars, aggVars, auditVars, settings>>
 /\ \/ /\ UNCHANGED noticeVars
       /\ \/ \E u \in Admins, t \in Tasks : callback_task_details(u, t)
          \/ \E u \in Admins, t \in Tasks : callback_reopen_task(u, t)
    \/ \E u \in Admins, comment \in ReopenComments : process_reopen_comment_said(u, comment)
    \/ \E u \in Admins, ok \in BOOLEAN : notice_done(u, ok)
    \/ \E u \in Admins : handler_store_raises(u, "reopen")

SpecReopen == InitReopen /\ [][NextReopen]_vars

\* the users who open the settings menu in the specification of the settings rows, and
\* the switches they press
SettingsUsers == {"a1", "e1"}
PressedKinds == {"24h", "comment"}

\* the settings rows: the table is empty; users open the settings menu, press switches and
\* set quiet hours, and the scans read the settings of any user
InitSettings ==
    /\ settings = [u \in Users |-> NoSettings]
    /\ SchedInit
    /\ AggInit
    /\ AuditInit
    /\ NoticeInit
    /\ AssignedInit

NextSettings ==
 /\ UNCHANGED <<schedVars, aggVars, auditVars, noticeVars>>
 /\ \/ \E u \in SettingsUsers : callback_notification_settings(u)
    \/ \E u \in Users : should_send_reads(u)
    \/ \E u \in SettingsUsers, k \in PressedKinds : callback_toggle_notification(u, k)
    \/ \E u \in SettingsUsers : callback_set_quiet_hours(u)
    \/ \E u \in SettingsUsers, x \in FewTimeTexts : process_quiet_hours_start(u, x)
    \/ \E u \in SettingsUsers, x \in FewTimeTexts : process_quiet_hours_end(u, x)

SpecSettings == InitSettings /\ [][NextSettings]_vars

Spec == SpecLife

\* ------------------------------------------------------------ properties
\* the answers callback_take_task has decided, delivered or not
TakeResults ==
    takeLog \cup {<<u, take[u].t, take[u].res>> : u \in {v \in Users : take[v].pc = "answering"}}
Winners(t) == {u \in Users : <<u, t, "taken">> \in TakeResults}
Losers(t) == {u \in Users : <<u, t, "already_assigned">> \in TakeResults}

\* C1: of the claim attempts of employees on a free task, concurrent or not, exactly one is
\* answered "taken" and every other one "already assigned"; the assignee is the winner and
\* no later attempt overwrites it.
C1_ExactlyOneWinner ==
    \A t \in Tasks :
        /\ Cardinality(Winners(t)) <= 1
        /\ (Winners(t) \cup Losers(t) # {} => Cardinality(Winners(t)) = 1)
        /\ \A w \in Winners(t) : tasks[t].assigned_to_id = w

\* two attempts on one task were in flight together: one has won, the other has lost
C1_Witness ==
    \E t \in Tasks, u, v \in Employees :
        /\ u # v
        /\ take[u] = [pc |-> "answering", t |-> t, res |-> "taken"]
        /\ take[v] = [pc |-> "answering", t |-> t, res |-> "already_assigned"]
        /\ tasks[t].assigned_to_id = u

\* C2: a task whose status is completed or partially_completed always carries the
\* non-empty completion comment that was stored together with that status.
C2_CompletedHasComment ==
    \A t \in Tasks :
        tasks[t].status \in CompletedStatuses => tasks[t].completion_comment # None

\* C3: every status write of callback_update_status and of callback_photo_no is requested
\* by a user who is an admin or the task's assignee when the row is written.
C3_WritesAuthorized ==
    lastWrite.op \in {"update_status", "photo_no"} => lastWrite.authorized

\* C4: with one scheduler loop (scans never overlap), each of the 8h, 4h and overdue
\* notifications of a task is delivered at most once to the assignee and, for overdue, at
\* most once to each admin; and no row of task_notifications is ever changed or removed.
C4_AtMostOnce ==
    /\ [](\A t \in Tasks :
            /\ \A k \in DedupKinds : delivered[t][k] <= 1
            /\ \A a \in Admins : adminAlerts[t][a] <= 1)
    /\ [][task_notifications \subseteq task_notifications']_vars

\* a later scan has selected the task again in the same window and skipped it on its log row
C4_Witness ==
    \E t \in Tasks, k \in DedupKinds :
        /\ sched[1].pc = "pause" /\ sched[1].res = "already_sent"
        /\ Head(sched[1].queue) = t /\ KindOrder[sched[1].kind] = k
        /\ delivered[t][k] = 1
        /\ t \in get_tasks(k)

\* C5: also with two overlapping scans, each deduped notification of a task is delivered
\* at most once.
C5_AtMostOnceOverlapping ==
    \A t \in Tasks, k \in DedupKinds : delivered[t][k] <= 1

\* the photos of one flow, and the bursts of the completion flow: photo i ends a burst if
\* it is the last photo or the next photo comes more than the delay later
PhotosOf(f) == {p \in 1..Len(uploads) : uploads[p].flow = f}
EndsBurst(i) == i = Len(uploads) \/ uploads[i + 1].at - uploads[i].at > CompletionDelay
BurstOf(i) == {j \in 1..i : \A k \in j..(i - 1) : ~EndsBurst(k)}
\* the completion flow is still open, every handler has ended and every menu task is over
CompletionSettled ==
    /\ PhotosOf("completion") # {}
    /\ fsm[FlowUser("completion")].state = "CompleteTask_waiting_for_photo"
    /\ \A p \in 1..Len(uploads) :
          uploads[p].pc = "done" /\ timers[p].st \in {"done", "cancelled"}

\* C6: in the completion flow, when no gap between two photos equals the 2 second delay,
\* every burst (photos less than the delay apart) gets exactly one prompt, shown after
\* the burst's last photo; the prompt of the last burst reports the number of all photos.
C6_OnePromptPerBurst ==
    (CompletionSettled /\ \A i \in 1..(Len(uploads) - 1) :
                             uploads[i + 1].at - uploads[i].at # CompletionDelay)
    => \A i \in 1..Len(uploads) :
          EndsBurst(i) =>
             /\ Cardinality({j \in BurstOf(i) : timers[j].prompted}) = 1
             /\ \A j \in BurstOf(i) :
                   timers[j].prompted =>
                      /\ timers[j].at >= uploads[i].at
                      /\ timers[j].count >= i
                      /\ i = Len(uploads) => timers[j].count = Len(uploads)

\* C7: in the creation flow, a menu task that slept its 3 seconds and found the entry of
\* its key still its own has shown the prompt with the number of photos stored for the
\* task and has removed the entry.
C7_LastPhotoPrompts ==
    \A p \in PhotosOf("creation") :
        (timers[p].st = "done" /\ timers[p].held) =>
            /\ timers[p].prompted
            /\ timers[p].count = timers[p].stored
            /\ timers[p].cleared
            /\ pending["creation"].task # p

\* C8: a menu task that wakes or is cancelled when the entry of its key belongs to a newer
\* task shows no prompt and leaves that entry in place.
C8_SupersededIsNoOp ==
    \A p \in 1..Len(timers) :
        timers[p].sup => ~timers[p].prompted /\ ~timers[p].clobbered

\* C9: every photo received in either flow is a row of task_photos from the moment its
\* handler has taken it.
C9_ReceivedIsStored ==
    \A p \in 1..Len(uploads) : \E r \in task_photos : r[2] = p

\* C10: a reopen is applied only to a task whose status is completed or partially_completed
\* when the admin's comment is processed.
C10_ReopenOnlyFromCompleted ==
    lastWrite.op = "reopen" => lastWrite.old \in CompletedStatuses

\* the rows of task_photos that hold completion photos of task t
CompletionPhotosOf(t) ==
    {r \in task_photos : r[1] = t /\ uploads[r[2]].flow = "completion"}

\* C11: after a reopen has been applied the task's status is in_progress, its
\* completion_comment and its photo field are null and none of its completion photos is
\* stored any more.
C11_ReopenClearsCompletion ==
    lastWrite.op = "reopen" =>
        LET t == lastWrite.t IN
        /\ tasks[t].status = "in_progress"
        /\ tasks[t].completion_comment = None
        /\ tasks[t].photo_file_id = 0
        /\ CompletionPhotosOf(t) = {}

\* the history rows of task t with the given change_type
HistoryOf(t, change_type) ==
    {i \in 1..Len(task_history) :
        task_history[i].task_id = t /\ task_history[i].change_type = change_type}

\* C12: every task created, and every task whose status a claim, a status update, a
\* completion or a reopen has written, has a history row for it (change_type 'reopened'
\* for a reopen); and the rows of task_history are only ever appended to.
C12_HistoryAppended ==
    /\ [](/\ \A t \in DOMAIN tasks \ Tasks : HistoryOf(t, "created") # {}
          /\ lastWrite.op = "reopen" => HistoryOf(lastWrite.t, "reopened") # {}
          /\ lastWrite.op \in {"take", "update_status", "photo_no"} =>
                 HistoryOf(lastWrite.t, "status") # {})
    /\ [][Len(task_history) <= Len(task_history')
            /\ SubSeq(task_history', 1, Len(task_history)) = task_history]_vars

\* C13: a task leaves completed or partially_completed only by an admin's reopen, which
\* sets it to in_progress; no other handler changes the status of such a task.
C13_OnlyReopenLeavesCompleted ==
    [][\A t \in Tasks :
          (tasks[t].status \in CompletedStatuses /\ tasks'[t].status # tasks[t].status)
          => (lastWrite'.op = "reopen" /\ lastWrite'.t = t /\ tasks'[t].status = "in_progress")]_vars

\* C14: a task whose status is rejected keeps that status in every step.
C14_RejectedIsFinal ==
    [][\A t \in Tasks : tasks[t].status = "rejected" => tasks'[t].status = "rejected"]_vars

\* C15: a task without an assignee has status pending.
C15_UnassignedIsPending ==
    \A t \in Tasks : tasks[t].assigned_to_id = None => tasks[t].status = "pending"

\* the tasks in the list a scan is working on
Queued(s) == {sched[s].queue[i] : i \in 1..Len(sched[s].queue)}

\* C16: a scan that reaches the 1-hour reminder selects every active task whose remaining
\* time is between 1 and 60 minutes, and never skips it as already sent, whatever was sent
\* before; and task_notifications never holds a row of the 1-hour kind.
C16_LastHourEveryScan ==
    /\ [](\A r \in task_notifications : r.notification_type # "1h")
    /\ [][\A s \in Scanners :
            /\ (sched[s].pc = "select" /\ KindOrder[sched[s].kind] = "1h"
                   /\ sched'[s] # sched[s])
               => \A t \in Tasks :
                     (active_assigned(t) /\ due[t] - now >= 1 /\ due[t] - now <= 60)
                     => (sched'[s].pc = "check" /\ t \in Queued(s)')
            /\ (sched[s].pc = "check" /\ KindOrder[sched[s].kind] = "1h"
                   /\ sched'[s] # sched[s])
               => sched'[s].res # "already_sent"]_vars

\* the 1-hour reminder of a task has been delivered by one scan and again by a later one
C16_Witness ==
    \E t \in Tasks :
        /\ sched[1].pc = "pause" /\ sched[1].res = "sent"
        /\ KindOrder[sched[1].kind] = "1h" /\ Head(sched[1].queue) = t
        /\ delivered[t]["1h"] = 2
        /\ t \in get_tasks_for_1h_reminder

\* the kinds whose get_* function selects task t now
KindsOf(t) == {k \in Kinds : t \in get_tasks(k)}

\* C17: at any reading of the clock an active task is selected by at most one kind: by the
\* 8h reminder (kind '24h') iff 7h to 9h remain, by the 4h reminder (kind '3h') iff 3.5h to
\* 4.5h remain, by the 1h reminder iff 1 to 60 minutes remain, as overdue iff the due date
\* passed more than 0 and less than 24 hours ago; otherwise by none.
C17_OneKindPerInstant ==
    \A t \in Tasks :
        active_assigned(t) =>
            LET remaining == due[t] - now IN
            /\ Cardinality(KindsOf(t)) <= 1
            /\ "24h" \in KindsOf(t) <=> remaining \in (7 * 60)..(9 * 60)
            /\ "3h" \in KindsOf(t) <=> remaining \in (3 * 60 + 30)..(4 * 60 + 30)
            /\ "1h" \in KindsOf(t) <=> remaining \in 1..60
            /\ "overdue" \in KindsOf(t) <=> (0 - remaining) \in 1..(24 * 60 - 1)

\* a scan has selected a task for the 4h reminder exactly 4.5 hours before the due date
C17_Witness ==
    \E t \in Tasks :
        /\ sched[1].pc = "check" /\ KindOrder[sched[1].kind] = "3h"
        /\ Head(sched[1].queue) = t
        /\ due[t] - now = 4 * 60 + 30
        /\ KindsOf(t) = {"3h"}

\* C18: one scan delivers notifications of at most one kind for a task.
C18_OneKindPerScan ==
    \A s \in Scanners : \A t \in Tasks :
        Cardinality({k \in Kinds : <<t, k>> \in sched[s].sent}) <= 1

\* minute m of the day lies in the quiet window from start to end
QuietWindow(m, start, end) ==
    IF start <= end THEN start <= m /\ m < end
                    ELSE m >= start \/ m < end

\* C19: is_quiet_hours is true exactly when the local time lies in the window from start
\* to end, which runs past midnight when start > end; with the window 22:00-08:00 the
\* times 22:00, 23:30 and 02:00 are quiet and 08:00 and 09:00 are not.
C19_QuietHoursWrap ==
    \A u \in Users :
        LET start == settings[u].quiet_hours_start[1] * 60 + settings[u].quiet_hours_start[2]
            end == settings[u].quiet_hours_end[1] * 60 + settings[u].quiet_hours_end[2]
        IN /\ is_quiet_hours(u) <=> QuietWindow(current_time, start, end)
           /\ (settings[u].quiet_hours_start = <<22, 0>> /\ settings[u].quiet_hours_end = <<8, 0>>)
              => /\ current_time \in {22 * 60, 23 * 60 + 30, 2 * 60} => is_quiet_hours(u)
                 /\ current_time \in {8 * 60, 9 * 60} => ~is_quiet_hours(u)

\* at 23:30, in the window 22:00-08:00, a scan has skipped the assignee's notification
C19_Witness ==
    /\ settings["e1"].quiet_hours_start = <<22, 0>> /\ settings["e1"].quiet_hours_end = <<8, 0>>
    /\ current_time = 23 * 60 + 30
    /\ is_quiet_hours("e1")
    /\ sched[1].pc = "pause" /\ sched[1].res = "disabled"

\* C20: a scan that comes to a task's notification while its kind is switched off in the
\* assignee's settings, or while the assignee's quiet hours last, goes on without sending
\* and without a log row; and a message is delivered only by a scan that is sending it.
C20_NoSendWhenDisabledOrQuiet ==
    [][\A s \in Scanners :
          /\ (sched[s].pc = "check" /\ sched'[s] # sched[s])
             => LET t == Head(sched[s].queue)
                    k == KindOrder[sched[s].kind]
                    u == tasks[t].assigned_to_id
                IN (~settings[u].enable[k] \/ is_quiet_hours(u))
                   => /\ sched'[s].pc = "pause"
                      /\ delivered' = delivered
                      /\ task_notifications' = task_notifications
          /\ delivered' # delivered => \E x \in Scanners : sched[x].pc = "sending"]_vars

\* outside the quiet hours a scan has skipped a notification whose kind is switched off
C20_Witness ==
    \E t \in Tasks, k \in Kinds :
        /\ sched[1].pc = "pause" /\ sched[1].res = "disabled"
        /\ Head(sched[1].queue) = t /\ KindOrder[sched[1].kind] = k
        /\ ~settings[tasks[t].assigned_to_id].enable[k]
        /\ ~is_quiet_hours(tasks[t].assigned_to_id)
        /\ delivered[t][k] = 0

\* C21: with the quiet hours 22:00-08:00 the scans at 23:30 and at 02:00 send nothing and
\* write no row into task_notifications, whatever the task is due for; and the scan at 09:00
\* that comes to a task of a deduplicated kind sends its notification.
C21_QuietSkipLeavesNoRow ==
    /\ [](now < NightInstants[3]
            => /\ task_notifications = {}
               /\ \A t \in Tasks : /\ \A k \in Kinds : delivered[t][k] = 0
                                   /\ \A a \in Admins : adminAlerts[t][a] = 0)
    /\ [][\A s \in Scanners :
            (/\ sched[s].pc = "check" /\ sched'[s] # sched[s]
             /\ now = NightInstants[3]
             /\ KindOrder[sched[s].kind] \in DedupKinds)
            => sched'[s].pc = "sending"]_vars

\* the scan at 09:00 has delivered the overdue notification of a task that was overdue at
\* 23:30 and at 02:00 already
C21_Witness ==
    \E t \in Tasks :
        /\ now = NightInstants[3]
        /\ due[t] < NightInstants[1]
        /\ settings[tasks[t].assigned_to_id].quiet_hours_start = <<22, 0>>
        /\ settings[tasks[t].assigned_to_id].quiet_hours_end = <<8, 0>>
        /\ sched[1].pc = "sending_admin" /\ Head(sched[1].queue) = t
        /\ delivered[t]["overdue"] = 1
        /\ ~check_notification_sent(t, "overdue")

\* a scan goes through its kinds in order and through each list task by task: it takes the
\* whole list of the kind, leaves a task only after its send function has returned, passes
\* to the next kind only after the last task of the list, and ends only after the last kind
ScanGoesOn(s) ==
    /\ (sched[s].pc = "select" /\ sched'[s].pc = "check")
       => sched'[s].queue = SeqOf(get_tasks(KindOrder[sched[s].kind]))
    /\ (sched[s].queue # <<>> /\ sched'[s].queue # sched[s].queue)
       => /\ sched[s].pc = "pause"
          /\ sched'[s].queue = Tail(sched[s].queue) \/ Tail(sched[s].queue) = <<>>
    /\ (sched[s].pc # "sleeping" /\ sched'[s].kind # sched[s].kind)
       => /\ Len(sched[s].queue) <= 1
          /\ sched'[s].kind = sched[s].kind + 1 \/ sched[s].kind = Len(KindOrder)
    /\ (sched[s].pc # "sleeping" /\ sched'[s].pc = "sleeping")
       => sched[s].kind = Len(KindOrder)

\* C22: a send that raises does not end the scan: after it the scan still comes to every
\* other task of the kind's list and to every later kind, the later kinds of the same task
\* among them.
C22_SendFailureGoesOn ==
    [][\A s \in Scanners : ScanGoesOn(s)]_vars

\* in one scan the send for task 1 raised, and the scan has come to a later task of the same
\* list and sent its notification
C22_Witness ==
    \E k \in Kinds :
        /\ <<1, k>> \in sched[1].failed
        /\ sched[1].pc = "pause" /\ sched[1].res = "sent"
        /\ KindOrder[sched[1].kind] = k /\ Head(sched[1].queue) = 2

\* C23: a call of the store that raises while a scan handles a task does not end the scan
\* as long as a task of the list or a kind is left.
C23_StoreFailureGoesOn ==
    [][\A s \in Scanners :
          (/\ sched'[s].res = "store_error" /\ sched[s].res # "store_error"
           /\ Len(sched[s].queue) > 1 \/ sched[s].kind < Len(KindOrder))
          => sched'[s].pc # "sleeping"]_vars

\* C24: the loop goes on after every scan: the next scan begins 60 seconds after a scan
\* that an exception ended, and 600 seconds after a scan that ran to its end.
C24_BackOffAfterFailedScan ==
    [][\A s \in Scanners :
          (sched[s].pc = "sleeping" /\ sched'[s].pc = "select")
          => (now' - now) * 60 = IF sched[s].res = "store_error" THEN 60 ELSE 600]_vars

\* C25: a send that never returns holds up only itself: the scan it belongs to passes on to
\* its other tasks and kinds, and the loop to its later scans.
C25_StalledSendDelaysOnlyItself ==
    \A s \in Scanners : (sched[s].pc = "stalled") ~> (sched[s].pc # "stalled")

\* C26: a step that ends a user's flow (photo_no, cancel, back_to_main) leaves no entry
\* under the flow's key and no menu task of the flow that can still wake; and no menu is
\* shown to a user who is in no flow.
C26_EndOfFlowDropsMenu ==
    [][\A f \in Flows :
          LET u == FlowUser(f) IN
          /\ (fsm[u].state # None /\ fsm'[u].state = None)
             => /\ pending'[f] = NoEntry
                /\ \A p \in 1..Len(timers') :
                      (uploads'[p].flow = f /\ IsLive(timers'[p])) => timers'[p].cancelReq
          /\ \A p \in 1..Len(timers) :
                (uploads[p].flow = f /\ timers'[p].prompted /\ ~timers[p].prompted)
                => fsm[u].state # None]_vars

\* C27: a transition handler starts sending a notification only in the step in which it
\* has committed its write; a handler whose write raised sends nothing and writes nothing;
\* and the end of a send, delivered or failed, changes no task and ends the handler.
C27_NotifyAfterCommit ==
    [][\A u \in Users :
          /\ (notice'[u].pc = "sending" /\ notice[u].pc = "idle")
             => /\ lastWrite' = Write(notice'[u].op, u, notice'[u].t)
                /\ notice'[u].before = tasks[notice'[u].t]
                /\ notice'[u].op = "take" => tasks'[notice'[u].t].assigned_to_id = u
                /\ notice'[u].op \in {"update_status", "reopen"}
                   => tasks'[notice'[u].t].status = "in_progress"
                /\ notice'[u].op = "photo_no"
                   => tasks'[notice'[u].t].status \in CompletedStatuses
          /\ (notice'[u].res = "store_error" /\ notice'[u] # notice[u])
             => /\ notice'[u].pc = "idle"
                /\ tasks' = tasks /\ lastWrite' = lastWrite
          /\ (notice[u].pc = "sending" /\ notice'[u] # notice[u])
             => /\ tasks' = tasks /\ lastWrite' = lastWrite
                /\ notice'[u].pc = "idle" => notice'[u].res \in {"sent", "failed"}]_vars

\* the notification of a completion has failed, and the task is completed with its comment
C27_Witness ==
    \E u \in Users :
        /\ notice[u].pc = "idle" /\ notice[u].res = "failed" /\ notice[u].op = "photo_no"
        /\ lastWrite = [op |-> "photo_no", t |-> notice[u].t, authorized |-> TRUE,
                        old |-> notice[u].before.status]
        /\ tasks[notice[u].t].status \in CompletedStatuses
        /\ tasks[notice[u].t].completion_comment # None

\* C28: a step that changes the tasks or the stored photos of a completion writes the new
\* status, the comment and every photo of the flow together, and a completion whose store
\* call raised, at whatever statement or at the commit, leaves the task's row and the stored
\* photos as they were.
C28_CompletionAtomic ==
    [][/\ (tasks' # tasks \/ task_photos' # task_photos)
          => \E u \in Users :
                LET d == fsm[u]
                    t == d.task_id
                IN /\ t # 0 /\ d.new_status \in CompletedStatuses
                   /\ tasks' = [tasks EXCEPT
                         ![t].status = d.new_status,
                         ![t].completion_comment = d.comment,
                         ![t].photo_file_id = IF d.completion_photos # <<>>
                                              THEN d.completion_photos[1] ELSE 0]
                   /\ task_photos' = task_photos \cup
                         {<<t, d.completion_photos[i]>> : i \in 1..Len(d.completion_photos)}
                   /\ lastWrite'.op = "photo_no" /\ lastWrite'.t = t
       /\ \A u \in Users :
             (notice'[u].op = "photo_no" /\ notice'[u].res = "store_error"
              /\ notice'[u] # notice[u])
             => /\ tasks' = tasks /\ task_photos' = task_photos
                /\ lastWrite' = lastWrite]_vars

\* the store failed after the UPDATE and the first INSERT of a completion with two photos
\* or more: the task is in progress without comment, and no photo is stored
C28_Witness ==
    \E u \in Users :
        /\ notice[u].op = "photo_no" /\ notice[u].res = "store_error"
        /\ notice[u].stmts = 2
        /\ Len(fsm[u].completion_photos) >= 2
        /\ tasks[notice[u].t].status = "in_progress"
        /\ tasks[notice[u].t].completion_comment = None
        /\ tasks[notice[u].t].photo_file_id = 0
        /\ task_photos = {}

\* C29: the send of an overdue notification to the assignee, returned or raised, is followed
\* by the sends to all admins, one admin after the other whatever the outcome of each send,
\* and the row (task, overdue) is written once, when the last admin's send has ended.
C29_OverdueCast ==
    [][\A s \in Scanners :
          LET r == sched[s]
              n == sched'[s]
              row == [task_id |-> Head(r.queue), notification_type |-> "overdue"]
          IN /\ (r.pc = "sending" /\ KindOrder[r.kind] = "overdue" /\ n.pc # "sending")
                => /\ n.pc = "sending_admin" /\ n.admins = Admins
                   /\ task_notifications' = task_notifications
             /\ (r.pc = "sending_admin" /\ n.pc = "sending_admin" /\ n.waited = r.waited)
                => /\ n.admins # {} /\ n.admins \subseteq r.admins
                   /\ Cardinality(r.admins \ n.admins) = 1
                   /\ task_notifications' = task_notifications
             /\ (r.pc = "sending_admin" /\ n.pc # "sending_admin")
                => /\ Cardinality(r.admins) = 1
                   /\ row \notin task_notifications
                   /\ task_notifications' = task_notifications \cup {row}
             /\ (r.pc # "sending_admin" /\ r.queue # <<>>)
                => (row \in task_notifications' <=> row \in task_notifications)]_vars

\* the sends of task 1's overdue notification to its assignee and to one admin have
\* raised, the other admin has got it, and the row (1, overdue) is written
C29_Witness ==
    /\ sched[1].pc = "pause" /\ Head(sched[1].queue) = 1
    /\ KindOrder[sched[1].kind] = "overdue"
    /\ <<1, "overdue">> \in sched[1].failed
    /\ delivered[1]["overdue"] = 0
    /\ Cardinality({a \in Admins : adminAlerts[1][a] = 1}) = 1
    /\ Cardinality({a \in Admins : adminAlerts[1][a] = 0}) = 1
    /\ check_notification_sent(1, "overdue")

\* the time window of kind k holds for task t now (get_* functions, lines 122, 181, 242
\* and 299)
in_window(t, k) ==
    CASE k = "24h" -> 7 * 60 <= minutes_until(t) /\ minutes_until(t) <= 9 * 60
      [] k = "3h" -> 210 <= minutes_until(t) /\ minutes_until(t) <= 270
      [] k = "1h" -> 1 <= minutes_until(t) /\ minutes_until(t) <= 60
      [] OTHER -> now - due[t] > 0 /\ now - due[t] < 24 * 60

\* C30: when a scan takes the list of a kind, every task that is not completed, partially
\* completed or rejected and whose due date lies in the kind's window is in the list,
\* whether it has an assignee or not.
C30_FreeTasksEvaluated ==
    [][\A s \in Scanners :
          (sched[s].pc = "select" /\ sched'[s] # sched[s])
          => \A t \in DOMAIN tasks :
                (/\ tasks[t].status \notin {"completed", "partially_completed", "rejected"}
                 /\ in_window(t, KindOrder[sched[s].kind]))
                => /\ sched'[s].pc = "check"
                   /\ \E i \in 1..Len(sched'[s].queue) : sched'[s].queue[i] = t]_vars

\* C31: a reopening that is written for a task with an assignee starts one notification to
\* that assignee, whose text holds the comment the admin has sent; the notification is one
\* send, and no other reopening notification is sent.
C31_ReopenNotifiesAssignee ==
    [][\A u \in Users :
          LET t == fsm[u].task_id
              reopened == /\ fsm[u].state = "ReopenTask_waiting_for_comment"
                          /\ fsm'[u].state = None
                          /\ notice'[u].res # "store_error"
                          /\ role(u) = "admin" /\ t # 0
          IN /\ (reopened /\ tasks[t].assigned_to_id # None)
                => /\ tasks'[t].status = "in_progress"
                   /\ notice'[u].pc = "sending" /\ notice'[u].op = "reopen"
                   /\ notice'[u].t = t
                   /\ notice'[u].to = {tasks[t].assigned_to_id}
                   /\ notice'[u].said \in ReopenComments
                   /\ notice'[u].text = <<"reopened", t, notice'[u].said>>
             /\ (notice'[u].pc = "sending" /\ notice[u].pc = "idle")
                => reopened /\ tasks[t].assigned_to_id # None
             /\ (notice[u].pc = "sending" /\ notice'[u] # notice[u])
                => /\ notice'[u].pc = "idle" /\ notice'[u].res \in {"sent", "failed"}
                   /\ notice'[u].text = notice[u].text]_vars

\* task 1 is reopened, and its assignee has got the notification with the admin's comment
C31_Witness ==
    \E u \in Admins :
        /\ notice[u].pc = "idle" /\ notice[u].res = "sent" /\ notice[u].op = "reopen"
        /\ notice[u].t = 1
        /\ notice[u].text = <<"reopened", 1, "redo the header">>
        /\ tasks[1].status = "in_progress" /\ tasks[1].completion_comment = None
        /\ tasks[1].assigned_to_id # None

\* C32: for every user and every table the program comes to, get_user_notification_settings
\* returns the user's row and leaves the table as it is when the user has a row, and
\* otherwise stores one row with the five switches on and the quiet hours 22:00-08:00 and
\* returns it; a second call changes nothing, and no user ever has two rows.
C32_SettingsGetOrCreate ==
    \A u \in Users :
        LET r == get_user_notification_settings(settings, u)
            created == [enable |-> [k \in {"24h", "3h", "1h", "overdue", "comment"} |-> TRUE],
                        quiet_hours_start |-> <<22, 0>>, quiet_hours_end |-> <<8, 0>>,
                        rows |-> 1]
        IN /\ settings[u].rows <= 1
           /\ ~r.raised
           /\ settings[u].rows = 1 => r.table = settings /\ r.result = settings[u]
           /\ settings[u].rows = 0
              => /\ r.result = created
                 /\ r.table[u] = created
                 /\ \A v \in Users \ {u} : r.table[v] = settings[v]
           /\ get_user_notification_settings(r.table, u).table = r.table
           /\ get_user_notification_settings(r.table, u).result = r.result

\* e1 has switched the 8h reminder off and set the quiet hours, the row of e2 was created
\* by a scan, and a2 has no row yet
C32_Witness ==
    /\ settings["e1"].rows = 1 /\ ~settings["e1"].enable["24h"]
    /\ settings["e1"].enable["comment"]
    /\ settings["e1"].quiet_hours_start = <<8, 0>>
    /\ settings["e2"] = DefaultSettings
    /\ settings["a2"].rows = 0

\* C33: a row (task, kind) of task_notifications exists only if a send of that kind for
\* that task has been delivered, to the assignee or, for the overdue kind, to an admin.
C33_RowOnlyAfterDelivery ==
    \A r \in task_notifications :
        \/ delivered[r.task_id][r.notification_type] > 0
        \/ /\ r.notification_type = "overdue"
           /\ \E a \in Admins : adminAlerts[r.task_id][a] > 0

\* C34: a task without assignee never gets an admin as its assignee through a request to
\* take it into work, be it the "take" button or the status button "in_progress".
C34_AdminNeverTakes ==
    [][\A t \in Tasks :
          (/\ tasks[t].assigned_to_id = None
           /\ tasks'[t].assigned_to_id # None
           /\ lastWrite'.op \in {"take", "update_status"} /\ lastWrite'.t = t)
          => role(tasks'[t].assigned_to_id) # "admin"]_vars

\* ------------------------------------------------------------ one session, several flows
\* two tasks exist, the reporter's own and a colleague's; the reporter goes through the
\* completion dialogue and opens the comments of any task in between
InitSession ==
    /\ SchedInit
    /\ AggInit
    /\ AuditInit
    /\ NoticeInit
    /\ SettingsInit
    /\ tasks = [t \in 1..NewTask |->
                  [status |-> "in_progress", assigned_to_id |-> IF t = 1 THEN "e1" ELSE "e2",
                   completion_comment |-> None, photo_file_id |-> 0]]
    /\ fsm = [u \in Users |-> EmptyData]
    /\ buttons = [u \in Users |-> {}]
    /\ take = [u \in Users |-> IdleTake]
    /\ takeLog = {}
    /\ lastWrite = NoWrite

NextSession ==
 /\ UNCHANGED <<schedVars, settings, noticeVars>>
 /\ \/ UNCHANGED auditVars /\ \E u \in Reporters : callback_photo_no(u)
    \/ /\ UNCHANGED aggVars
       /\ \/ /\ UNCHANGED auditVars
             /\ \/ \E u \in Reporters, t \in DOMAIN tasks : callback_task_details(u, t)
                \/ \E u \in Reporters, t \in DOMAIN tasks, s \in CompletedStatuses :
                       callback_update_status(u, t, s)
                \/ \E u \in Reporters : process_completion_comment(u)
          \/ \E u \in Reporters, t \in DOMAIN tasks : callback_task_comments(u, t)
          \/ \E u \in Reporters, t \in DOMAIN tasks : callback_add_comment(u, t)
          \/ \E u \in Reporters : process_comment_text(u)

SpecSession == InitSession /\ [][NextSession]_vars

\* C35: a completion written by callback_photo_no changes only the task of the presser's
\* latest authorised completion request, to the status of that request, and only while the
\* presser is in the completion dialogue; data another flow stored in the session in
\* between never makes it complete another task.
C35_PhotoNoCompletesRequested ==
    [][\A t \in DOMAIN tasks :
          (tasks'[t] # tasks[t] /\ lastWrite'.op = "photo_no")
          => \E u \in Users :
                /\ fsm'[u] = EmptyData
                /\ fsm[u].request = <<t, tasks'[t].status>>
                /\ fsm[u].state \in {"CompleteTask_asking_for_photo",
                                     "CompleteTask_waiting_for_photo"}]_vars

\* ------------------------------------------------------------ a scan beside the handlers
\* the scan and the handlers share the event loop: a handler runs while the scan waits in
\* bot.send_message or asyncio.sleep(0.5), or before the scan's get_* call; from that call
\* to the first send of the list nothing is awaited
scan_awaits(s) == sched[s].pc # "check"

\* the assignee rejects a task or completes it while loop 1 scans
NextRace ==
 /\ UNCHANGED <<auditVars, noticeVars, settings>>
 /\ \/ /\ UNCHANGED <<lifeVars, aggVars>>
       /\ \/ select_tasks(1)
          \/ send_check(1)
          \/ \E ok \in BOOLEAN : send_done(1, ok)
          \/ \E ok \in BOOLEAN : send_admin_done(1, ok)
          \/ pause_done(1)
    \/ /\ scan_awaits(1)
       /\ UNCHANGED schedVars
       /\ \/ /\ UNCHANGED aggVars
             /\ \/ \E u \in Reporters, t \in DOMAIN tasks : callback_task_details(u, t)
                \/ \E u \in Reporters, t \in DOMAIN tasks, st \in {"rejected", "completed"} :
                       callback_update_status(u, t, st)
                \/ \E u \in Reporters : process_completion_comment(u)
          \/ \E u \in Reporters : callback_photo_no(u)

SpecRace == InitLoop /\ [][NextRace]_vars

\* the statuses the get_* calls of the scheduler leave out
ClosedStatuses == {"completed", "partially_completed", "rejected"}

\* C36: when the scheduler makes a send about a task, to the assignee or as part of the
\* overdue cast to an admin, the task is not completed, partially completed or rejected at
\* that moment, also when it was active as the scan loaded its list.
C36_NoSendForClosedTask ==
    [][\A s \in Scanners :
          LET t == Head(sched[s].queue) IN
          \/ sched[s].pc = "check" /\ sched'[s].pc = "sending"
          \/ sched[s].pc = "sending" /\ sched'[s].pc = "sending_admin"
          \/ /\ sched[s].pc = "sending_admin" /\ sched'[s].pc = "sending_admin"
             /\ sched'[s].admins # sched[s].admins
          => tasks[t].status \notin ClosedStatuses]_vars

\* ------------------------------------------------------------ the overdue cast and the settings
\* the quiet hours are empty; each admin and the assignee have the overdue notification
\* switched on or off as the first scan begins
OverdueOff == [DefaultSettings EXCEPT !.quiet_hours_start = <<0, 0>>, !.quiet_hours_end = <<0, 0>>,
                                      !.enable["overdue"] = FALSE]
OverdueOn == [DefaultSettings EXCEPT !.quiet_hours_start = <<0, 0>>, !.quiet_hours_end = <<0, 0>>]

InitCast ==
    /\ SeveralInit
    /\ sched = [s \in Scanners |->
                   IF s = 1 THEN [IdleScan EXCEPT !.pc = "select", !.kind = 1] ELSE IdleScan]
    /\ settings \in [Users -> {OverdueOn, OverdueOff}]
    /\ settings["e2"] = OverdueOn

SpecCast == InitCast /\ [][NextGateway]_vars

\* C37: an admin gets the overdue cast of a task only with the admin's own overdue switch
\* on and outside the admin's own quiet hours; and a scan that comes to an overdue task
\* not yet notified does not pass it over while some admin is to get the cast, whatever
\* the assignee's settings are.
C37_AdminOwnPreferences ==
    [][/\ \A t \in DOMAIN tasks, a \in Admins :
             adminAlerts'[t][a] # adminAlerts[t][a] => should_send_notification(a, "overdue")
       /\ \A s \in Scanners :
             (/\ sched[s].pc = "check" /\ sched'[s] # sched[s]
              /\ KindOrder[sched[s].kind] = "overdue"
              /\ ~check_notification_sent(Head(sched[s].queue), "overdue")
              /\ \E a \in Admins : should_send_notification(a, "overdue"))
             => sched'[s].pc # "pause"]_vars

\* ------------------------------------------------------------ through the 8h window
\* the loop sleeps between two scans at any minute at which more than 9 hours remain; the
\* assignee has every kind switched on and no quiet hours; every send returns and the
\* store works; a scan follows the other after asyncio.sleep(600), and minutes pass while a
\* scan is sending, until less than 7 hours remain
InitEight ==
    /\ \E n \in 0..((DueDate - 9) * 60 - 1) : SchedStart(n)
    /\ AggInit
    /\ AuditInit
    /\ NoticeInit
    /\ settings = [u \in Users |-> OverdueOn]
    /\ AssignedInit

\* the clock reading after which the loop is followed no further: 7 hours before the due
\* date and two scans on
EightEnd == (DueDate - 7) * 60 + 2 * (ScanInterval \div 60)

NextEight ==
 /\ UNCHANGED <<lifeVars, aggVars, auditVars, noticeVars, settings>>
 /\ \/ select_tasks(1)
    \/ send_check(1)
    \/ send_done(1, TRUE)
    \/ pause_done(1)
    \/ ScanMinute(1)
    \/ now < EightEnd /\ sleep_done(1)

SpecEight == InitEight /\ [][NextEight]_vars

\* C38: a task that stays in progress with its assignee, who has the 8h reminder switched
\* on and no quiet hours, gets no 8h reminder while more than 9 hours remain, never more
\* than one, and exactly one has been sent when a scan has ended with less than 7 hours
\* remaining; the scans follow each other by asyncio.sleep(600) and nothing fails.
C38_EightHourOnce ==
    \A t \in Tasks :
        /\ delivered[t]["24h"] <= 1
        /\ minutes_until(t) > 9 * 60 => delivered[t]["24h"] = 0
        /\ (minutes_until(t) < 7 * 60 /\ sched[1].pc = "sleeping")
           => /\ delivered[t]["24h"] = 1
              /\ check_notification_sent(t, "24h")

\* less than 7 hours remain for task 1, the loop sleeps, and the one 8h reminder was sent
C38_Witness ==
    /\ minutes_until(1) < 7 * 60
    /\ sched[1].pc = "sleeping"
    /\ delivered[1]["24h"] = 1
    /\ check_notification_sent(1, "24h")

\* ------------------------------------------------------------ the log row is not written
\* the loop over several tasks, one scan 600 seconds after the other; every send returns,
\* and the INSERT of mark_notification_sent may raise
NextMark ==
 /\ UNCHANGED <<lifeVars, aggVars, auditVars, noticeVars, settings>>
 /\ \/ select_tasks(1)
    \/ send_check(1)
    \/ send_done(1, TRUE)
    \/ send_admin_done(1, TRUE)
    \/ pause_done(1)
    \/ mark_raises(1)
    \/ now < MaxNow * 60 /\ sleep_done(1)

SpecMark == InitLoop /\ [][NextMark]_vars

\* C39: a notification of a deduplicated kind is delivered for a task only when none of
\* that kind was delivered for the task before, also after a scan whose INSERT into
\* task_notifications raised.
C39_NoResendAfterMarkFailure ==
    [][\A t \in DOMAIN tasks, k \in DedupKinds :
          delivered'[t][k] > delivered[t][k] => delivered[t][k] = 0]_vars

\* ------------------------------------------------------------ an album for a new task
\* the admin is in the photo step of the creation of a task, no task is created yet, and
\* the photos of an album arrive one right after the other
InitAlbum ==
    /\ InitUpload
    /\ fsm[FlowUser("creation")].state = "CreateTask_waiting_for_task_photo"

NextAlbum ==
 /\ UNCHANGED <<now, task_notifications, sched, delivered, adminAlerts, auditVars, noticeVars, settings>>
 /\ \/ \E u \in Users : process_task_photo(u)
    \/ /\ UNCHANGED due
       /\ \/ \E p \in 1..Len(uploads) :
                \/ task_photo_registered(p)
                \/ show_task_photo_menu_start(p)
                \/ show_task_photo_menu_fire(p)
                \/ show_task_photo_menu_cancelled(p)
          \/ SecondTick

SpecAlbum == InitAlbum /\ [][NextAlbum]_vars

\* C40: once a photo of the creation flow has been handled, one handler and no other has
\* inserted a task, the tasks table holds that one new task, and every photo handled so
\* far is a row of task_photos of that task, also while the handlers of several photos
\* wait for their acknowledgement at once.
C40_AlbumCreatesOneTask ==
    LET photos == {p \in 1..Len(uploads) : uploads[p].flow = "creation"} IN
    photos # {}
    => /\ Cardinality({p \in photos : uploads[p].created}) = 1
       /\ DOMAIN tasks = 1..NewTask
       /\ task_photos = {<<NewTask, p>> : p \in photos}
       /\ fsm[FlowUser("creation")].task_id = NewTask

\* the handlers of all MaxPhotos photos wait for message.answer at once, and the photos
\* are rows of the one new task
C40_Witness ==
    /\ Len(uploads) = MaxPhotos
    /\ \A p \in 1..Len(uploads) : uploads[p].flow = "creation" /\ uploads[p].pc = "ack"
    /\ Cardinality({r \in task_photos : r[1] = NewTask}) = MaxPhotos
    /\ NewTask \in DOMAIN tasks
====
